---- MODULE Spec2Model ----
(***************************************************************************)
(* Escrow-backed advertising marketplace coordinator                       *)
(* (tg-adescrow-bot: bot.py, auto_poster.py, ton_escrow.py).               *)
(*                                                                         *)
(* The model follows one deal ("D1") on one registered channel through the *)
(* SQLite tables deals, escrow_wallets, escrow_transactions and            *)
(* scheduled_posts, the HTTP handlers that write them, and the background  *)
(* PostScheduler thread.  Handlers that await the chain or the messaging   *)
(* platform between their database read and their database write are split *)
(* at those awaits, so that other threads can run in between; handlers     *)
(* that only touch the database are one step.  escrow/create, which        *)
(* derives a key pair between its SELECT and its INSERT, is given both as  *)
(* one step and thread by thread.  Amounts are in hundredths of a TON, so  *)
(* the 0.05 fee reserve is 5 and "x >= e * 0.99" is "100 * x >= 99 * e".   *)
(*                                                                         *)
(* The specifications share the variables and the actions:                 *)
(*   Spec           the HTTP handlers on deals and escrow (Flask threads), *)
(*   SpecPoster     the auto-poster: its endpoints and the PostScheduler,  *)
(*   SpecFSM        transition_deal_state alone, two callers, results kept,*)
(*   SpecDeposit    Spec without the release / refund endpoints,           *)
(*   SpecVerifyTick SpecPoster without the deposit check,                  *)
(*   SpecRows       escrow/create called by two clients, the posting      *)
(*                  endpoints and the PostScheduler before any deposit,    *)
(*   SpecHold       the auto-poster with posts of two hold periods,        *)
(*   SpecCancel     post/cancel with its answers among the auto-poster,    *)
(*   SpecPermissions the channel_admins table and the permission check,    *)
(*   SpecGate       accept, post and release with their answers,           *)
(*   SpecNotify     the notifier called by one task at a time,             *)
(*   SpecNotifyTwo  the notifier called by two tasks,                      *)
(*   SpecSend       release and refund by endpoint and scheduler, in turn, *)
(*   SpecNotice     the scheduler and the notifications it sends,          *)
(*   SpecLoop       the worker loop of the scheduler and its ticks,        *)
(*   SpecStatus     the escrow status check,                               *)
(*   SpecChannels   channel creation, registration and re-verification,    *)
(*   SpecPayout     release and refund interleaved, with late transfers,   *)
(*   SpecPostTick   the post tick next to transitions of the deal,         *)
(*   SpecReverify   verify_and_update_admin against the platform,         *)
(*   SpecKeys       encryption of mnemonics, any ESCROW_SECRET_KEY setting.*)
(* At most MaxInFlight threads are inside a multi-step handler or tick at  *)
(* a time; single-statement handlers interleave freely with them.          *)
(***************************************************************************)
EXTENDS Integers, Sequences, FiniteSets, TLC

\* ------------------------------------------------------------------ bounds
MaxTime == 1
MaxPosts == 2
MaxDeposits == 1
MaxTxs == 2
MaxMsgs == 2
MaxInFlight == 2
MaxElapse == 3
MaxNotes == 3
MaxKeys == 3
MaxBatch == 2

\* --------------------------------------------------------------- constants
FEE_RESERVE == 5
NOTIFICATION_COOLDOWN_SECONDS == 60

NULL == 0 - 1
NoAddr == "NULL"
DealIds == {"D1"}
Callers == {"c1", "c2"}

\* amounts an advertiser may agree on / transfer (hundredths of a TON)
EscrowAmounts == {0, 100}
DepositAmounts == {3, 100}
Addrs == {NoAddr, "addr"}
HoldHours == {1}
\* two hold periods, to tell posted_at + hold_hours from posted_at + 1
HoldPeriods == {1, 2}
ProbeResults == {"forwarded", "not_found", "cant_forward", "error"}
\* the events notified in the model: one for the advertiser, one for both
NotifyEvents == {"posted", "completed"}
\* amounts paid to the escrow address in the status check's specification
StatusDeposits == {3, 98, 99, 100}
\* seconds between post ticks and between verify ticks of _run_loop
POST_EVERY == 60
VERIFY_EVERY == 300
\* the rows a tick can select, and what can happen while one is processed
BatchIds == 1..MaxBatch
Batches ==
    {q \in UNION {[1..n -> BatchIds] : n \in 0..MaxBatch} :
        \A i \in DOMAIN q, j \in DOMAIN q : q[i] = q[j] => i = j}
ItemOutcomes == {"ok", "send_failed", "rpc_error", "exception"}
\* usernames of channels that get created, registered and re-verified
ChannelNames == {"@a", "@b"}
\* what Telegram reports about a chat member
MemberStatuses == {"creator", "administrator", "member", "left"}
\* an attribute of the member object: set, cleared, or not there
FlagValues == {"True", "False", "absent"}
\* ESCROW_SECRET_KEY: a valid Fernet key, a malformed value, or unset
EnvKey == 0
MalformedKey == 0 - 2
EnvSettings == {EnvKey, MalformedKey, NULL}
\* mnemonics: lists of words, a word a string of letters
Words == {<<"a">>, <<"b", "c">>, <<"d">>}
Mnemonics == {<<w>> : w \in Words} \cup {<<w, v>> : w \in Words, v \in Words}
\* the notifier's clock advances in steps of this many seconds
ClockStep == 30

VARIABLES
    now,            \* wall clock (datetime.now())
    deals,          \* table deals: id -> row
    channel,        \* the channels row the deal points to
    wallets,        \* table escrow_wallets (rows of deal D1)
    txs,            \* table escrow_transactions (append only, id = index)
    posts,          \* table scheduled_posts: id -> row
    postSeq,        \* sqlite_sequence of scheduled_posts (AUTOINCREMENT)
    chain,          \* the escrow address on chain: balance, incoming, outgoing
    msgs,           \* number of ad messages sent to the channel
    tr,             \* transition_deal_state calls in flight, per caller
    esc,            \* escrow release / refund endpoint calls in flight
    vd,             \* escrow verify endpoint call in flight
    pn,             \* post/now endpoint call in flight
    sched,          \* the PostScheduler thread
    cw,             \* escrow/create endpoint calls in flight, per caller
    cn,             \* post/cancel endpoint call in flight
    admins,         \* table channel_admins of the channel: user -> role
    perm,           \* permission/check endpoint call and its answer
    gd,             \* permission-gated deal action call and its answer
    clock,          \* wall clock of the notifier, in seconds
    cache,          \* _notification_cache of deal D1: event -> time of the last mark
    nt,             \* notify_deal_participants calls in flight, per caller
    sentlog,        \* messages the platform delivered to users, in order
    env,            \* ESCROW_SECRET_KEY in the environment of the process
    ks,             \* key generation and the mnemonic store of the process
    rv,             \* verify_and_update_admin in flight
    wl,             \* PostScheduler._run_loop: counters and the tick in progress
    gs,             \* api_get_escrow_status in flight
    cached_balance, \* escrow_wallets.balance as written by the status check
    chans,          \* rows of channels by username, with their verification columns
    cv              \* channel verification in flight

vars == <<now, deals, channel, wallets, txs, posts, postSeq, chain, msgs,
          tr, esc, vd, pn, sched, cw, cn, admins, perm,
          gd,
          clock,
          cache,
          nt,
          sentlog,
          env,
          ks,
          rv,
          wl,
          gs,
          cached_balance,
          chans,
          cv>>

\* ------------------------------------------------------- DealStateMachine
States == {"pending", "accepted", "funded", "scheduled", "posted",
           "verified", "completed", "refunded", "cancelled"}

TRANSITIONS ==
    [s \in States |->
        CASE s = "pending"   -> <<"accepted", "cancelled">>
          [] s = "accepted"  -> <<"funded", "cancelled">>
          [] s = "funded"    -> <<"scheduled", "posted", "refunded">>
          [] s = "scheduled" -> <<"posted", "cancelled", "refunded">>
          [] s = "posted"    -> <<"verified", "refunded">>
          [] s = "verified"  -> <<"completed", "refunded">>
          [] OTHER           -> <<>>]

get_allowed_transitions(current_state) ==
    IF current_state \in DOMAIN TRANSITIONS THEN TRANSITIONS[current_state] ELSE <<>>

can_transition_any(current_state, new_state) == new_state \in States

can_transition(current_state, new_state) ==
    \E i \in DOMAIN get_allowed_transitions(current_state) :
        get_allowed_transitions(current_state)[i] = new_state

is_terminal(state) == Len(get_allowed_transitions(state)) = 0

\* statuses a client may put in the body of a request; "escrow" is a string
\* outside the state machine (bot.py tests for it in api_post_ad)
RequestStatuses == {"pending", "escrow"}

\* ------------------------------------------------------------- permissions
Roles == {"owner", "manager", "poster"}
NoRole == "NULL"
Users == {"u1", "u2"}
\* the actions a client may name; the last one is unknown to the code
Actions == {"accept_deal", "post_ad", "release_escrow", "edit_channel"}

can_accept_deals_all(r) == r \in {"owner", "manager", "poster"}

can_accept_deals(r) == r \in {"owner", "manager"}
can_post_ads(r) == r \in {"owner", "manager", "poster"}
can_release_escrow_all(r) == r \in {"owner", "manager", "poster"}

can_release_escrow(r) == r \in {"owner", "manager"}

\* the dict check_channel_permission returns for a role read from
\* channel_admins (NoRole: no row)
check_channel_permission(role, action) ==
    IF role = NoRole
    THEN [allowed |-> FALSE, role |-> NoRole, error |-> "not_admin"]
    ELSE CASE action = "accept_deal" ->
                [allowed |-> can_accept_deals(role), role |-> role,
                 error |-> IF can_accept_deals(role) THEN "none"
                           ELSE "owners_managers_only"]
           [] action = "post_ad" ->
                [allowed |-> can_post_ads(role), role |-> role,
                 error |-> IF can_post_ads(role) THEN "none"
                           ELSE "insufficient"]
           [] action = "release_escrow" ->
                [allowed |-> can_release_escrow(role), role |-> role,
                 error |-> IF can_release_escrow(role) THEN "none"
                           ELSE "owners_managers_only"]
           [] OTHER ->
                [allowed |-> FALSE, role |-> role, error |-> "unknown_action"]

\* ------------------------------------------------------------------ helpers
HasDeal == "D1" \in DOMAIN deals
HasWallet == wallets # {}

\* a request thread holds its response in pc = "done" until it is returned
IdleTr == [pc |-> "idle", target |-> "NULL", old |-> "NULL", res |-> "none",
           allowed |-> << >>]
IdleEsc == [pc |-> "idle", kind |-> "NULL", dest |-> NoAddr, amount |-> 0,
            res |-> "none"]
IdleVd == [pc |-> "idle", hint |-> NoAddr, res |-> "none", rowcount |-> 0]
IdlePn == [pc |-> "idle", hold |-> 0, res |-> "none"]
NoToken == [key |-> NULL, data |-> << >>]
IdleKs == [generated |-> 0, mnemonic |-> << >>, encrypted |-> NoToken,
           res |-> "none", decrypted |-> << >>]
IdleWl == [pc |-> "top", post_counter |-> 0, verify_counter |-> 0,
           kind |-> "NULL", posts |-> << >>, done |-> << >>, escaped |-> 0]
IdleGs == [pc |-> "idle", code |-> 0, expected |-> 0, current_balance |-> 0,
           is_funded |-> FALSE]
NoChannel == [id |-> NULL, telegram_channel_id |-> NULL, verified |-> FALSE,
              bot_is_admin |-> FALSE, bot_can_post |-> FALSE]
NoChannelVerification == [success |-> FALSE, verified |-> FALSE,
                          bot_is_admin |-> FALSE, bot_can_post |-> FALSE,
                          telegram_channel_id |-> NULL, error |-> "NULL"]
IdleCv == [pc |-> "idle", op |-> "NULL", username |-> "NULL",
           verification |-> NoChannelVerification, success |-> FALSE]
IdleNt == [pc |-> "idle", event |-> "NULL", todo |-> << >>, sent |-> {},
           throttled |-> {}, failed |-> {}, fresh |-> FALSE]
IdleGd == [pc |-> "idle", user |-> "NULL", action |-> "NULL", code |-> 0,
           role |-> NoRole]
NoVerification == [is_admin |-> FALSE, can_post |-> FALSE,
                   can_manage |-> FALSE, telegram_channel_id |-> NULL,
                   error |-> "NULL"]
IdleRv == [pc |-> "idle", user |-> "NULL", verified |-> FALSE,
           role |-> NoRole, error |-> "NULL", verification |-> NoVerification]
IdlePerm == [pc |-> "idle", user |-> "NULL", action |-> "NULL",
             result |-> [allowed |-> FALSE, role |-> NoRole, error |-> "none"]]
IdleCn == [pc |-> "idle", res |-> "none"]
IdleCw == [pc |-> "idle", res |-> "none", address |-> NoAddr]
IdleSched == [pc |-> "idle", post |-> NULL, hold |-> 0, release_at |-> NULL,
              key |-> FALSE, dest |-> NoAddr, probe |-> "none",
              kind |-> "NULL", amount |-> 0, res |-> "none",
              notify |-> "NULL"]

\* threads that are between the first read and the return of a handler or tick
InFlight ==
    Cardinality({c \in Callers : tr[c].pc # "idle"})
    + (IF esc.pc # "idle" THEN 1 ELSE 0) + (IF vd.pc # "idle" THEN 1 ELSE 0)
    + (IF pn.pc # "idle" THEN 1 ELSE 0) + (IF sched.pc # "idle" THEN 1 ELSE 0)
    + Cardinality({c \in Callers : cw[c].pc # "idle"})
    + (IF cn.pc # "idle" THEN 1 ELSE 0)
    + Cardinality({c \in Callers : nt[c].pc # "idle"})

CanStart == InFlight < MaxInFlight

\* ---------------------------------------------------------------------- Init
InitEnv(key) ==
    /\ now = 0
    /\ deals = [d \in {} |-> 0]
    /\ channel = [bot_can_post |-> TRUE, telegram_channel_id |-> 1,
                  owner_ton_wallet |-> "addr"]
    /\ wallets = {}
    /\ txs = << >>
    /\ posts = [i \in {} |-> 0]
    /\ postSeq = 0
    /\ chain = [balance |-> 0, incoming |-> << >>, sent |-> << >>]
    /\ msgs = 0
    /\ tr = [c \in Callers |-> IdleTr]
    /\ esc = IdleEsc
    /\ vd = IdleVd
    /\ pn = IdlePn
    /\ sched = IdleSched
    /\ cw = [c \in Callers |-> IdleCw]
    /\ cn = IdleCn
    /\ admins = [u \in Users |-> IF u = "u1" THEN "owner" ELSE NoRole]
    /\ perm = IdlePerm
    /\ gd = IdleGd
    /\ clock = 0
    /\ cache = [e \in NotifyEvents |-> NULL]
    /\ nt = [c \in Callers |-> IdleNt]
    /\ sentlog = << >>
    /\ env = key
    /\ ks = IdleKs
    /\ rv = IdleRv
    /\ wl = IdleWl
    /\ gs = IdleGs
    /\ cached_balance = 0
    /\ chans = [u \in ChannelNames |-> NoChannel]
    /\ cv = IdleCv

Init == InitEnv(EnvKey)

\* the process started with any setting of ESCROW_SECRET_KEY
InitKeys == \E key \in EnvSettings : InitEnv(key)

\* ------------------------------------------------------------- environment
\* time passes
Tick ==
    /\ now < MaxTime
    /\ now' = now + 1
    /\ UNCHANGED <<deals, channel, wallets, txs, posts, postSeq, chain, msgs,
                   tr, esc, vd, pn, sched, cw, cn, admins, perm, gd, clock,
                   cache, nt, sentlog, env, ks, rv, wl, gs, cached_balance,
                   chans, cv>>

\* an advertiser transfers to the escrow address (seen by the chain only)
Deposit(a) ==
    /\ HasWallet
    /\ Len(chain.incoming) < MaxDeposits
    /\ chain' = [chain EXCEPT
                   !.balance = @ + a,
                   !.incoming = Append(@, [hash |-> Len(chain.incoming) + 1,
                                           amount |-> a,
                                           timestamp |-> Len(chain.incoming) + 1])]
    /\ UNCHANGED <<now, deals, channel, wallets, txs, posts, postSeq, msgs, tr,
                   esc, vd, pn, sched, cw, cn, admins, perm, gd, clock, cache,
                   nt, sentlog, env, ks, rv, wl, gs, cached_balance, chans,
                   cv>>

\* a further transfer to the escrow address after funds have left it
DepositAfterPayout(a) ==
    /\ HasWallet
    /\ chain.sent # << >>
    /\ Len(chain.incoming) < MaxDeposits + 1
    /\ chain' = [chain EXCEPT
                   !.balance = @ + a,
                   !.incoming = Append(@, [hash |-> Len(chain.incoming) + 1,
                                           amount |-> a,
                                           timestamp |-> Len(chain.incoming) + 1])]
    /\ UNCHANGED <<now, deals, channel, wallets, txs, posts, postSeq, msgs, tr,
                   esc, vd, pn, sched, cw, cn, admins, perm, gd, clock, cache,
                   nt, sentlog, env, ks, rv, wl, gs, cached_balance, chans,
                   cv>>

\* seconds pass on the notifier's clock
Elapse ==
    /\ clock < ClockStep * MaxElapse
    /\ clock' = clock + ClockStep
    /\ UNCHANGED <<now, deals, channel, wallets, txs, posts, postSeq, chain,
                   msgs, tr, esc, vd, pn, sched, cw, cn, admins, perm, gd,
                   cache, nt, sentlog, env, ks, rv, wl, gs, cached_balance,
                   chans, cv>>

\* ------------------------------------------------------------ deal creation
NewDeal(status, amount) ==
    [status |-> status, escrow_amount |-> amount, advertiser_wallet |-> NoAddr,
     channel_owner_wallet |-> NoAddr]

api_create_deal(status, amount) ==
    /\ ~HasDeal
    /\ deals' = [d \in {"D1"} |-> NewDeal(status, amount)]
    /\ UNCHANGED <<now, channel, wallets, txs, posts, postSeq, chain, msgs, tr,
                   esc, vd, pn, sched, cw, cn, admins, perm, gd, clock, cache,
                   nt, sentlog, env, ks, rv, wl, gs, cached_balance, chans,
                   cv>>

\* --------------------------------------------------- transition_deal_state
\* the result dict of a finished call; a caller that does not keep it is idle
\* again at once
TrResult(keep, r) == IF keep THEN r ELSE IdleTr

\* SELECT the row, validate against TRANSITIONS; an invalid request returns
\* at once, a valid one proceeds to the compare-and-set UPDATE
TransitionRead(c, new_state, keep) ==
    /\ tr[c].pc = "idle"
    /\ HasDeal
    /\ LET current_state == deals["D1"].status IN
         IF ~can_transition(current_state, new_state)
         THEN tr' = [tr EXCEPT ![c] = TrResult(keep,
                        [pc |-> "done", target |-> new_state,
                         old |-> current_state, res |-> "invalid",
                         allowed |-> get_allowed_transitions(current_state)])]
         ELSE tr' = [tr EXCEPT ![c] =
                        [pc |-> "update", target |-> new_state,
                         old |-> current_state, res |-> "none",
                         allowed |-> << >>]]
    /\ UNCHANGED <<now, deals, channel, wallets, txs, posts, postSeq, chain,
                   msgs, esc, vd, pn, sched, cw, cn, admins, perm, gd, clock,
                   cache, nt, sentlog, env, ks, rv, wl, gs, cached_balance,
                   chans, cv>>

\* UPDATE deals SET status = ? WHERE id = ? AND status = ?  -> rowcount
CasRowcountPlain(c) == 1

CasRowcount(c) == IF deals["D1"].status = tr[c].old THEN 1 ELSE 0

TransitionUpdate(c, keep) ==
    /\ tr[c].pc = "update"
    /\ IF CasRowcount(c) = 0
       THEN /\ tr' = [tr EXCEPT ![c] = TrResult(keep,
                         [tr[c] EXCEPT !.pc = "done", !.res = "concurrent"])]
            /\ UNCHANGED deals
       ELSE /\ tr' = [tr EXCEPT ![c] = TrResult(keep,
                         [tr[c] EXCEPT !.pc = "done", !.res = "success"])]
            /\ deals' = [deals EXCEPT !["D1"].status = tr[c].target]
    /\ UNCHANGED <<now, channel, wallets, txs, posts, postSeq, chain, msgs,
                   esc, vd, pn, sched, cw, cn, admins, perm, gd, clock, cache,
                   nt, sentlog, env, ks, rv, wl, gs, cached_balance, chans,
                   cv>>

\* the caller has its result dict and the request is over
TransitionReturn(c) ==
    /\ tr[c].pc = "done"
    /\ tr' = [tr EXCEPT ![c] = IdleTr]
    /\ UNCHANGED <<now, deals, channel, wallets, txs, posts, postSeq, chain,
                   msgs, esc, vd, pn, sched, cw, cn, admins, perm, gd, clock,
                   cache, nt, sentlog, env, ks, rv, wl, gs, cached_balance,
                   chans, cv>>

\* --------------------------------------------------------- channel admins
get_user_channel_role(user_id) == admins[user_id]

\* INSERT ... ON CONFLICT(channel_id, user_id) DO UPDATE SET role
set_channel_admin(user_id, role) ==
    /\ role \in Roles
    /\ admins' = [admins EXCEPT ![user_id] = role]
    /\ UNCHANGED <<now, deals, channel, wallets, txs, posts, postSeq, chain,
                   msgs, tr, esc, vd, pn, sched, cw, cn, perm, gd, clock,
                   cache, nt, sentlog, env, ks, rv, wl, gs, cached_balance,
                   chans, cv>>

remove_channel_admin(user_id) ==
    /\ admins' = [admins EXCEPT ![user_id] = NoRole]
    /\ UNCHANGED <<now, deals, channel, wallets, txs, posts, postSeq, chain,
                   msgs, tr, esc, vd, pn, sched, cw, cn, perm, gd, clock,
                   cache, nt, sentlog, env, ks, rv, wl, gs, cached_balance,
                   chans, cv>>

api_check_permission(user_id, action) ==
    /\ perm.pc = "idle"
    /\ perm' = [pc |-> "done", user |-> user_id, action |-> action,
                result |-> check_channel_permission(
                               get_user_channel_role(user_id), action)]
    /\ UNCHANGED <<now, deals, channel, wallets, txs, posts, postSeq, chain,
                   msgs, tr, esc, vd, pn, sched, cw, cn, admins, gd, clock,
                   cache, nt, sentlog, env, ks, rv, wl, gs, cached_balance,
                   chans, cv>>

PermissionReturn ==
    /\ perm.pc = "done"
    /\ perm' = IdlePerm
    /\ UNCHANGED <<now, deals, channel, wallets, txs, posts, postSeq, chain,
                   msgs, tr, esc, vd, pn, sched, cw, cn, admins, gd, clock,
                   cache, nt, sentlog, env, ks, rv, wl, gs, cached_balance,
                   chans, cv>>

\* ------------------------------------------------ verify_and_update_admin
\* getattr(member, name, default)
getattr(value, default) == IF value = "absent" THEN default ELSE value = "True"

\* verify_telegram_admin: get_chat, get_chat_member and the flags read off
\* the member
verify_telegram_admin(rpc_ok, status, can_post_messages, can_manage_chat) ==
    IF ~rpc_ok
    THEN [NoVerification EXCEPT !.error = "rpc_error"]
    ELSE IF status \in {"creator", "administrator"}
    THEN [NoVerification EXCEPT
            !.telegram_channel_id = 1,
            !.is_admin = TRUE,
            !.can_post = getattr(can_post_messages, TRUE),
            !.can_manage = status = "creator" \/ getattr(can_manage_chat, FALSE)]
    ELSE [NoVerification EXCEPT !.telegram_channel_id = 1]

\* the role verify_and_update_admin derives from the flags
RoleFromFlagsPostFirst(verification) ==
    IF verification.can_post THEN "manager"
    ELSE IF verification.can_manage THEN "owner"
    ELSE "poster"

RoleFromFlags(verification) ==
    IF verification.can_manage THEN "owner"
    ELSE IF verification.can_post THEN "manager"
    ELSE "poster"

\* up to await verify_telegram_admin(...): the channel and the user are read
ReverifyStart(user_id) ==
    /\ rv.pc = "idle"
    /\ rv' = [IdleRv EXCEPT !.pc = "platform", !.user = user_id]
    /\ UNCHANGED <<now, deals, channel, wallets, txs, posts, postSeq, chain,
                   msgs, tr, esc, vd, pn, sched, cw, cn, admins, perm, gd,
                   clock, cache, nt, sentlog, env, ks, wl, gs, cached_balance,
                   chans, cv>>

\* the answer of the platform and what verify_and_update_admin does with it
ReverifyFinish(rpc_ok, status, can_post_messages, can_manage_chat) ==
    /\ rv.pc = "platform"
    /\ LET verification == verify_telegram_admin(rpc_ok, status,
                                                 can_post_messages,
                                                 can_manage_chat)
           Done == [rv EXCEPT !.pc = "done", !.verification = verification]
       IN IF verification.error # "NULL"
          THEN /\ rv' = [Done EXCEPT !.error = verification.error]
               /\ UNCHANGED <<admins, channel>>
          ELSE IF ~verification.is_admin
          THEN /\ admins' = [admins EXCEPT ![rv.user] = NoRole]
               /\ rv' = [Done EXCEPT !.error = "no_longer_admin"]
               /\ UNCHANGED channel
          ELSE /\ admins' = [admins EXCEPT
                               ![rv.user] = RoleFromFlags(verification)]
               /\ channel' = [channel EXCEPT !.telegram_channel_id =
                                  verification.telegram_channel_id]
               /\ rv' = [Done EXCEPT !.verified = TRUE,
                                     !.role = RoleFromFlags(verification)]
    /\ UNCHANGED <<now, deals, wallets, txs, posts, postSeq, chain, msgs, tr,
                   esc, vd, pn, sched, cw, cn, perm, gd, clock, cache, nt,
                   sentlog, env, ks, wl, gs, cached_balance, chans, cv>>

ReverifyReturn ==
    /\ rv.pc = "done"
    /\ rv' = IdleRv
    /\ UNCHANGED <<now, deals, channel, wallets, txs, posts, postSeq, chain,
                   msgs, tr, esc, vd, pn, sched, cw, cn, admins, perm, gd,
                   clock, cache, nt, sentlog, env, ks, wl, gs, cached_balance,
                   chans, cv>>

\* ----------------------------------------------------- channel verification
\* api_create_channel: INSERT INTO channels without the verification columns,
\* which take their defaults
api_create_channel(username) ==
    /\ chans[username].id = NULL
    /\ chans' = [chans EXCEPT ![username] = [NoChannel EXCEPT !.id = 1]]
    /\ UNCHANGED <<now, deals, channel, wallets, txs, posts, postSeq, chain,
                   msgs, tr, esc, vd, pn, sched, cw, cn, admins, perm, gd,
                   clock, cache, nt, sentlog, env, ks, rv, wl, gs,
                   cached_balance, cv>>

\* verify_channel: get_chat, then get_chat_member for the bot itself
verify_channel_lax(chat_ok, member_ok, status, can_post_messages) ==
    IF ~chat_ok
    THEN [NoChannelVerification EXCEPT !.error = "no_access"]
    ELSE LET seen == [NoChannelVerification EXCEPT !.telegram_channel_id = 1]
         IN IF ~member_ok
            THEN [seen EXCEPT !.error = "cannot_verify"]
            ELSE IF status = "administrator"
            THEN [seen EXCEPT !.bot_is_admin = TRUE,
                              !.bot_can_post = getattr(can_post_messages, FALSE),
                              !.verified = TRUE, !.success = TRUE]
            ELSE IF status = "creator"
            THEN [seen EXCEPT !.bot_is_admin = TRUE, !.bot_can_post = TRUE,
                              !.verified = TRUE, !.success = TRUE]
            ELSE [seen EXCEPT !.error = "not_admin"]

verify_channel(chat_ok, member_ok, status, can_post_messages) ==
    IF ~chat_ok
    THEN [NoChannelVerification EXCEPT !.error = "no_access"]
    ELSE LET seen == [NoChannelVerification EXCEPT !.telegram_channel_id = 1]
         IN IF ~member_ok
            THEN [seen EXCEPT !.error = "cannot_verify"]
            ELSE IF status = "administrator"
            THEN IF ~getattr(can_post_messages, FALSE)
                 THEN [seen EXCEPT !.bot_is_admin = TRUE,
                                   !.error = "cannot_post"]
                 ELSE [seen EXCEPT !.bot_is_admin = TRUE,
                                   !.bot_can_post = TRUE,
                                   !.verified = TRUE, !.success = TRUE]
            ELSE IF status = "creator"
            THEN [seen EXCEPT !.bot_is_admin = TRUE, !.bot_can_post = TRUE,
                              !.verified = TRUE, !.success = TRUE]
            ELSE [seen EXCEPT !.error = "not_admin"]

\* update_channel_verification(channel_id, verification): the UPDATE
update_channel_verification(username, verification) ==
    [chans EXCEPT ![username] =
        [@ EXCEPT !.telegram_channel_id = verification.telegram_channel_id,
                  !.verified = verification.verified,
                  !.bot_is_admin = verification.bot_is_admin,
                  !.bot_can_post = verification.bot_can_post]]

\* a verification is asked for: by verify_and_register_channel, or for an
\* existing row whose columns update_channel_verification will rewrite
ChannelVerifyStart(op, username) ==
    /\ cv.pc = "idle"
    /\ op = "update" => chans[username].id # NULL
    /\ cv' = [IdleCv EXCEPT !.pc = "platform", !.op = op,
                            !.username = username]
    /\ UNCHANGED <<now, deals, channel, wallets, txs, posts, postSeq, chain,
                   msgs, tr, esc, vd, pn, sched, cw, cn, admins, perm, gd,
                   clock, cache, nt, sentlog, env, ks, rv, wl, gs,
                   cached_balance, chans>>

\* the platform has answered; verify_and_register_channel inserts or updates
\* the row as verified only after a successful verification
ChannelVerifyFinish(chat_ok, member_ok, status, can_post_messages) ==
    /\ cv.pc = "platform"
    /\ LET verification == verify_channel(chat_ok, member_ok, status,
                                          can_post_messages)
           Done == [cv EXCEPT !.pc = "done", !.verification = verification]
       IN IF cv.op = "update"
          THEN /\ chans' = update_channel_verification(cv.username,
                                                       verification)
               /\ cv' = [Done EXCEPT !.success = TRUE]
          ELSE IF ~verification.success
          THEN /\ cv' = Done
               /\ UNCHANGED chans
          ELSE /\ chans' = [chans EXCEPT ![cv.username] =
                               [id |-> 1,
                                telegram_channel_id |->
                                    verification.telegram_channel_id,
                                verified |-> TRUE, bot_is_admin |-> TRUE,
                                bot_can_post |-> TRUE]]
               /\ cv' = [Done EXCEPT !.success = TRUE]
    /\ UNCHANGED <<now, deals, channel, wallets, txs, posts, postSeq, chain,
                   msgs, tr, esc, vd, pn, sched, cw, cn, admins, perm, gd,
                   clock, cache, nt, sentlog, env, ks, rv, wl, gs,
                   cached_balance>>

ChannelVerifyReturn ==
    /\ cv.pc = "done"
    /\ cv' = IdleCv
    /\ UNCHANGED <<now, deals, channel, wallets, txs, posts, postSeq, chain,
                   msgs, tr, esc, vd, pn, sched, cw, cn, admins, perm, gd,
                   clock, cache, nt, sentlog, env, ks, rv, wl, gs,
                   cached_balance, chans>>

\* ------------------------------------------- permission-gated deal actions
\* role: the channel_admins role of the calling user (get_user_channel_role)
api_accept_deal(role) ==
    /\ HasDeal
    /\ check_channel_permission(role, "accept_deal").allowed
    /\ deals' = [deals EXCEPT !["D1"].status = "accepted"]
    /\ UNCHANGED <<now, channel, wallets, txs, posts, postSeq, chain, msgs, tr,
                   esc, vd, pn, sched, cw, cn, admins, perm, gd, clock, cache,
                   nt, sentlog, env, ks, rv, wl, gs, cached_balance, chans,
                   cv>>

api_post_ad(role) ==
    /\ HasDeal
    /\ deals["D1"].status \in {"accepted", "funded", "escrow"}
    /\ check_channel_permission(role, "post_ad").allowed
    /\ deals' = [deals EXCEPT !["D1"].status = "posted"]
    /\ UNCHANGED <<now, channel, wallets, txs, posts, postSeq, chain, msgs, tr,
                   esc, vd, pn, sched, cw, cn, admins, perm, gd, clock, cache,
                   nt, sentlog, env, ks, rv, wl, gs, cached_balance, chans,
                   cv>>

api_release_escrow(role) ==
    /\ HasDeal
    /\ deals["D1"].status \in {"posted", "verified"}
    /\ check_channel_permission(role, "release_escrow").allowed
    /\ deals' = [deals EXCEPT !["D1"].status = "completed"]
    /\ UNCHANGED <<now, channel, wallets, txs, posts, postSeq, chain, msgs, tr,
                   esc, vd, pn, sched, cw, cn, admins, perm, gd, clock, cache,
                   nt, sentlog, env, ks, rv, wl, gs, cached_balance, chans,
                   cv>>

\* the same three endpoints called by a user of the channel_admins table,
\* with their answers: the status test (400) comes before the permission
\* check (403) in api_post_ad and api_release_escrow; api_accept_deal has none
GateStatusOk(action, status) ==
    CASE action = "accept_deal"    -> TRUE
      [] action = "post_ad"        -> status \in {"accepted", "funded", "escrow"}
      [] OTHER                     -> status \in {"posted", "verified"}

GateTarget(action) ==
    CASE action = "accept_deal" -> "accepted"
      [] action = "post_ad"     -> "posted"
      [] OTHER                  -> "completed"

GatedDealAction(user_id, action) ==
    /\ gd.pc = "idle"
    /\ HasDeal
    /\ LET permission == check_channel_permission(
                             get_user_channel_role(user_id), action)
           Answer(code, role) == [pc |-> "done", user |-> user_id,
                                  action |-> action, code |-> code,
                                  role |-> role]
       IN IF ~GateStatusOk(action, deals["D1"].status)
          THEN /\ gd' = Answer(400, NoRole)
               /\ UNCHANGED deals
          ELSE IF ~permission.allowed
          THEN /\ gd' = Answer(403, permission.role)
               /\ UNCHANGED deals
          ELSE /\ gd' = Answer(200, permission.role)
               /\ deals' = [deals EXCEPT !["D1"].status = GateTarget(action)]
    /\ UNCHANGED <<now, channel, wallets, txs, posts, postSeq, chain, msgs, tr,
                   esc, vd, pn, sched, cw, cn, admins, perm, clock, cache, nt,
                   sentlog, env, ks, rv, wl, gs, cached_balance, chans, cv>>

GatedReturn ==
    /\ gd.pc = "done"
    /\ gd' = IdleGd
    /\ UNCHANGED <<now, deals, channel, wallets, txs, posts, postSeq, chain,
                   msgs, tr, esc, vd, pn, sched, cw, cn, admins, perm, clock,
                   cache, nt, sentlog, env, ks, rv, wl, gs, cached_balance,
                   chans, cv>>

\* ------------------------------------------------------------ escrow wallet
\* generate_escrow_wallet: a fresh mnemonic, hence an address no other call
\* gets; the address is named after the calling thread
generate_escrow_wallet(c) == [address |-> c]

WalletRow(address) == [deal_id |-> "D1", address |-> address]

\* SELECT address FROM escrow_wallets WHERE deal_id = ?  (the rows found)
existing_unseen == {}

existing == {w \in wallets : w.deal_id = "D1"}

\* the handler when no other thread runs between its SELECT and its INSERT
api_create_escrow_wallet ==
    /\ HasDeal
    /\ ~HasWallet
    /\ wallets' = {WalletRow(generate_escrow_wallet("c1").address)}
    /\ UNCHANGED <<now, deals, channel, txs, posts, postSeq, chain, msgs, tr,
                   esc, vd, pn, sched, cw, cn, admins, perm, gd, clock, cache,
                   nt, sentlog, env, ks, rv, wl, gs, cached_balance, chans,
                   cv>>

\* the same handler, thread by thread: the two SELECTs...
CreateWalletRead(c) ==
    /\ cw[c].pc = "idle"
    /\ HasDeal
    /\ IF existing # {}
       THEN cw' = [cw EXCEPT ![c] = [pc |-> "done", res |-> "exists",
                                     address |->
                                       (CHOOSE w \in existing : TRUE).address]]
       ELSE cw' = [cw EXCEPT ![c] = [pc |-> "insert", res |-> "none",
                                     address |-> generate_escrow_wallet(c).address]]
    /\ UNCHANGED <<now, deals, channel, wallets, txs, posts, postSeq, chain,
                   msgs, tr, esc, vd, pn, sched, cn, admins, perm, gd, clock,
                   cache, nt, sentlog, env, ks, rv, wl, gs, cached_balance,
                   chans, cv>>

\* UNIQUE(deal_id) of escrow_wallets
UniqueWalletAny == TRUE

UniqueWallet == ~HasWallet

\* ... and the INSERT; a violated constraint raises and the handler answers 500
CreateWalletInsert(c) ==
    /\ cw[c].pc = "insert"
    /\ IF UniqueWallet
       THEN /\ wallets' = wallets \cup {WalletRow(cw[c].address)}
            /\ cw' = [cw EXCEPT ![c].pc = "done", ![c].res = "created"]
       ELSE /\ cw' = [cw EXCEPT ![c] = [pc |-> "done", res |-> "error",
                                        address |-> NoAddr]]
            /\ UNCHANGED wallets
    /\ UNCHANGED <<now, deals, channel, txs, posts, postSeq, chain, msgs, tr,
                   esc, vd, pn, sched, cn, admins, perm, gd, clock, cache, nt,
                   sentlog, env, ks, rv, wl, gs, cached_balance, chans, cv>>

CreateWalletReturn(c) ==
    /\ cw[c].pc = "done"
    /\ cw' = [cw EXCEPT ![c] = IdleCw]
    /\ UNCHANGED <<now, deals, channel, wallets, txs, posts, postSeq, chain,
                   msgs, tr, esc, vd, pn, sched, cn, admins, perm, gd, clock,
                   cache, nt, sentlog, env, ks, rv, wl, gs, cached_balance,
                   chans, cv>>

\* get_transactions: newest first; an RPC failure yields the empty list
RECURSIVE Reverse(_)
Reverse(s) == IF s = << >> THEN << >> ELSE Append(Reverse(Tail(s)), Head(s))

get_transactions(rpc_ok) == IF rpc_ok THEN Reverse(chain.incoming) ELSE << >>

RECURSIVE TotalReceived(_)
TotalReceived(transactions) ==
    IF transactions = << >> THEN 0
    ELSE (IF Head(transactions).amount > 0 THEN Head(transactions).amount ELSE 0)
         + TotalReceived(Tail(transactions))

\* index of the deposit the loop of check_for_deposit keeps (0: none)
RECURSIVE LastDeposit(_, _, _)
LastDeposit(transactions, i, best) ==
    IF i > Len(transactions) THEN best
    ELSE IF transactions[i].amount > 0
            /\ (best = 0 \/ transactions[i].timestamp > transactions[best].timestamp)
         THEN LastDeposit(transactions, i + 1, i)
         ELSE LastDeposit(transactions, i + 1, best)

check_for_deposit(transactions, expected_amount) ==
    LET total_received == TotalReceived(transactions)
        last_deposit == LastDeposit(transactions, 1, 0)
    IN [funded |-> 100 * total_received >= 99 * expected_amount,
        received_amount |-> total_received,
        transaction_hash |-> IF last_deposit = 0 THEN NULL
                             ELSE transactions[last_deposit].hash,
        from_address |-> IF last_deposit = 0 THEN NoAddr ELSE "addr"]

\* INSERT [OR IGNORE] INTO escrow_transactions under UNIQUE(tx_hash)
HashTaken(h) == h # NULL /\ \E i \in DOMAIN txs : txs[i].tx_hash = h

TxRow(type, h) == [tx_type |-> type, tx_hash |-> h]

\* --------------------------------------------- api_verify_escrow_deposit
VerifyStart(hint) ==
    /\ vd.pc = "idle"
    /\ HasDeal
    /\ IF ~HasWallet
       THEN vd' = [IdleVd EXCEPT !.pc = "done", !.res = "not_found"]
       ELSE vd' = [IdleVd EXCEPT !.pc = "check", !.hint = hint]
    /\ UNCHANGED <<now, deals, channel, wallets, txs, posts, postSeq, chain,
                   msgs, tr, esc, pn, sched, cw, cn, admins, perm, gd, clock,
                   cache, nt, sentlog, env, ks, rv, wl, gs, cached_balance,
                   chans, cv>>

\* the UPDATE of the verify endpoint: which statuses it may overwrite
FundableAny(status) == TRUE

Fundable(status) == status \in {"pending", "accepted"}

VerifyFinish(rpc_ok) ==
    /\ vd.pc = "check"
    /\ LET deposit_info == check_for_deposit(get_transactions(rpc_ok),
                                             deals["D1"].escrow_amount)
           wallet == IF vd.hint # NoAddr THEN vd.hint ELSE deposit_info.from_address
       IN IF deposit_info.funded
          THEN /\ Len(txs) < MaxTxs
               /\ deals' = IF Fundable(deals["D1"].status)
                           THEN [deals EXCEPT !["D1"].status = "funded",
                                              !["D1"].advertiser_wallet = wallet]
                           ELSE deals
               /\ txs' = IF HashTaken(deposit_info.transaction_hash) THEN txs
                         ELSE Append(txs, TxRow("deposit",
                                                deposit_info.transaction_hash))
               /\ vd' = [IdleVd EXCEPT
                           !.pc = "done", !.res = "funded",
                           !.rowcount = IF Fundable(deals["D1"].status)
                                        THEN 1 ELSE 0]
          ELSE /\ vd' = [IdleVd EXCEPT !.pc = "done", !.res = "not_funded"]
               /\ UNCHANGED <<deals, txs>>
    /\ UNCHANGED <<now, channel, wallets, posts, postSeq, chain, msgs, tr, esc,
                   pn, sched, cw, cn, admins, perm, gd, clock, cache, nt,
                   sentlog, env, ks, rv, wl, gs, cached_balance, chans, cv>>

VerifyReturn ==
    /\ vd.pc = "done"
    /\ vd' = IdleVd
    /\ UNCHANGED <<now, deals, channel, wallets, txs, posts, postSeq, chain,
                   msgs, tr, esc, pn, sched, cw, cn, admins, perm, gd, clock,
                   cache, nt, sentlog, env, ks, rv, wl, gs, cached_balance,
                   chans, cv>>

\* ------------------------- api_release_escrow_funds / api_refund_escrow
ReleasableStatuses == {"funded", "posted", "verified"}

Or3(a, b, c) == IF a # NoAddr THEN a ELSE IF b # NoAddr THEN b ELSE c

EscrowDest(kind, hint) ==
    IF kind = "release"
    THEN Or3(hint, deals["D1"].channel_owner_wallet, channel.owner_ton_wallet)
    ELSE Or3(hint, deals["D1"].advertiser_wallet, NoAddr)

EscDone(kind, res) ==
    [pc |-> "done", kind |-> kind, dest |-> NoAddr, amount |-> 0, res |-> res]

EscrowStart(kind, hint) ==
    /\ esc.pc = "idle"
    /\ HasDeal
    /\ IF ~HasWallet
       THEN esc' = EscDone(kind, "not_found")
       ELSE IF deals["D1"].status \notin ReleasableStatuses
       THEN esc' = EscDone(kind, "bad_status")
       ELSE IF EscrowDest(kind, hint) = NoAddr
       THEN esc' = EscDone(kind, "no_dest")
       ELSE esc' = [pc |-> "balance", kind |-> kind,
                    dest |-> EscrowDest(kind, hint), amount |-> 0,
                    res |-> "none"]
    /\ UNCHANGED <<now, deals, channel, wallets, txs, posts, postSeq, chain,
                   msgs, tr, vd, pn, sched, cw, cn, admins, perm, gd, clock,
                   cache, nt, sentlog, env, ks, rv, wl, gs, cached_balance,
                   chans, cv>>

\* get_wallet_balance: the live balance, or 0 when the RPC fails
get_wallet_balance(rpc_ok) == IF rpc_ok THEN chain.balance ELSE 0

EscrowBalance(rpc_ok) ==
    /\ esc.pc = "balance"
    /\ LET current_balance == get_wallet_balance(rpc_ok) IN
         IF current_balance <= FEE_RESERVE
         THEN esc' = EscDone(esc.kind, "insufficient")
         ELSE esc' = [esc EXCEPT !.pc = "send", !.amount = current_balance]
    /\ UNCHANGED <<now, deals, channel, wallets, txs, posts, postSeq, chain,
                   msgs, tr, vd, pn, sched, cw, cn, admins, perm, gd, clock,
                   cache, nt, sentlog, env, ks, rv, wl, gs, cached_balance,
                   chans, cv>>

\* release_funds / refund_funds: what is handed to send_ton
send_amount(amount) == IF amount - FEE_RESERVE > 0 THEN amount - FEE_RESERVE ELSE 0

\* send_ton: the chain accepts a transfer the balance covers; the hash of the
\* result may be missing
SendOutcomes(amount) ==
    {[success |-> FALSE, tx_hash |-> NULL]}
    \cup (IF send_amount(amount) > 0 /\ chain.balance >= send_amount(amount)
          THEN {[success |-> TRUE, tx_hash |-> h] :
                    h \in {NULL, 100 + Len(chain.sent) + 1}}
          ELSE {})

SentUnseen(by, kind, amount) == chain

Sent(by, kind, amount) ==
    [chain EXCEPT !.balance = @ - send_amount(amount),
                  !.sent = Append(@, [by |-> by, kind |-> kind])]

EscrowSend ==
    /\ esc.pc = "send"
    /\ \E result \in SendOutcomes(esc.amount) :
         IF result.success
         THEN /\ chain' = Sent("api", esc.kind, esc.amount)
              /\ IF HashTaken(result.tx_hash)
                 THEN /\ esc' = EscDone(esc.kind, "error")
                      /\ UNCHANGED <<deals, txs>>
                 ELSE /\ deals' = IF esc.kind = "release"
                                  THEN [deals EXCEPT
                                          !["D1"].status = "completed",
                                          !["D1"].channel_owner_wallet = esc.dest]
                                  ELSE [deals EXCEPT !["D1"].status = "refunded"]
                      /\ txs' = Append(txs, TxRow(esc.kind, result.tx_hash))
                      /\ esc' = EscDone(esc.kind, "ok")
         ELSE /\ esc' = EscDone(esc.kind, "send_failed")
              /\ UNCHANGED <<chain, deals, txs>>
    /\ UNCHANGED <<now, channel, wallets, posts, postSeq, msgs, tr, vd, pn,
                   sched, cw, cn, admins, perm, gd, clock, cache, nt, sentlog,
                   env, ks, rv, wl, gs, cached_balance, chans, cv>>

EscrowReturn ==
    /\ esc.pc = "done"
    /\ esc' = IdleEsc
    /\ UNCHANGED <<now, deals, channel, wallets, txs, posts, postSeq, chain,
                   msgs, tr, vd, pn, sched, cw, cn, admins, perm, gd, clock,
                   cache, nt, sentlog, env, ks, rv, wl, gs, cached_balance,
                   chans, cv>>

\* ------------------------------------------------------------ auto-poster
PostRow(status, scheduled_time, hold_hours, message_id, posted_at, release_at) ==
    [deal_id |-> "D1", status |-> status, scheduled_time |-> scheduled_time,
     hold_hours |-> hold_hours, message_id |-> message_id,
     posted_at |-> posted_at, release_at |-> release_at,
     last_verified |-> NULL]

\* rows of scheduled_posts that belong to the deal
PostsOfDeal == {i \in DOMAIN posts : posts[i].deal_id = "D1"}

\* INSERT INTO scheduled_posts: the next AUTOINCREMENT id
InsertPost(row) ==
    [i \in DOMAIN posts \cup {postSeq + 1} |->
        IF i = postSeq + 1 THEN row ELSE posts[i]]

DeletePost(id) == [i \in DOMAIN posts \ {id} |-> posts[i]]

\* api_schedule_post, then auto_poster.schedule_post
api_schedule_post(scheduled_time, hold_hours) ==
    /\ HasDeal
    /\ deals["D1"].status \in {"funded", "accepted"}
    /\ channel.bot_can_post
    /\ PostsOfDeal = {}
    /\ postSeq < MaxPosts
    /\ posts' = InsertPost(PostRow("scheduled", scheduled_time, hold_hours,
                                   NULL, NULL, NULL))
    /\ postSeq' = postSeq + 1
    /\ deals' = [deals EXCEPT !["D1"].status = "scheduled"]
    /\ UNCHANGED <<now, channel, wallets, txs, chain, msgs, tr, esc, vd, pn,
                   sched, cw, cn, admins, perm, gd, clock, cache, nt, sentlog,
                   env, ks, rv, wl, gs, cached_balance, chans, cv>>

\* api_cancel_scheduled_post: the post statuses it cancels from
CancellableAny(status) == TRUE

Cancellable(status) == status = "scheduled"

\* a call that succeeds (the answer is not kept)
api_cancel_scheduled_post ==
    /\ \E id \in PostsOfDeal :
         /\ Cancellable(posts[id].status)
         /\ posts' = DeletePost(id)
    /\ deals' = [deals EXCEPT !["D1"].status = "funded"]
    /\ UNCHANGED <<now, channel, wallets, txs, postSeq, chain, msgs, tr, esc,
                   vd, pn, sched, cw, cn, admins, perm, gd, clock, cache, nt,
                   sentlog, env, ks, rv, wl, gs, cached_balance, chans, cv>>

\* any call, with its answer: 404 without a post, 400 when the post is not
\* to be cancelled any more, else the DELETE and the UPDATE of the deal
CancelPost ==
    /\ cn.pc = "idle"
    /\ IF PostsOfDeal = {}
       THEN /\ cn' = [pc |-> "done", res |-> "not_found"]
            /\ UNCHANGED <<posts, deals>>
       ELSE LET post == CHOOSE id \in PostsOfDeal : TRUE IN
            IF ~Cancellable(posts[post].status)
            THEN /\ cn' = [pc |-> "done", res |-> "bad_status"]
                 /\ UNCHANGED <<posts, deals>>
            ELSE /\ posts' = DeletePost(post)
                 /\ deals' = [deals EXCEPT !["D1"].status = "funded"]
                 /\ cn' = [pc |-> "done", res |-> "ok"]
    /\ UNCHANGED <<now, channel, wallets, txs, postSeq, chain, msgs, tr, esc,
                   vd, pn, sched, cw, admins, perm, gd, clock, cache, nt,
                   sentlog, env, ks, rv, wl, gs, cached_balance, chans, cv>>

CancelReturn ==
    /\ cn.pc = "done"
    /\ cn' = IdleCn
    /\ UNCHANGED <<now, deals, channel, wallets, txs, posts, postSeq, chain,
                   msgs, tr, esc, vd, pn, sched, cw, admins, perm, gd, clock,
                   cache, nt, sentlog, env, ks, rv, wl, gs, cached_balance,
                   chans, cv>>

\* release_at = now + timedelta(hours=hold_hours)
ReleaseAtNoHold(posted_at, hold_hours) == posted_at

ReleaseAt(posted_at, hold_hours) == posted_at + hold_hours

\* api_post_now: checks, then the send, then the INSERT and the deal UPDATE
PostNowStart(hold_hours) ==
    /\ pn.pc = "idle"
    /\ HasDeal
    /\ channel.telegram_channel_id # NULL
    /\ channel.bot_can_post
    /\ pn' = [pc |-> "send", hold |-> hold_hours, res |-> "none"]
    /\ UNCHANGED <<now, deals, channel, wallets, txs, posts, postSeq, chain,
                   msgs, tr, esc, vd, sched, cw, cn, admins, perm, gd, clock,
                   cache, nt, sentlog, env, ks, rv, wl, gs, cached_balance,
                   chans, cv>>

\* UNIQUE(deal_id) of scheduled_posts
UniqueDeal == PostsOfDeal = {}

PostNowSend(sent_ok) ==
    /\ pn.pc = "send"
    /\ IF sent_ok
       THEN /\ msgs < MaxMsgs
            /\ msgs' = msgs + 1
            /\ IF UniqueDeal
               THEN /\ postSeq < MaxPosts
                    /\ posts' = InsertPost(PostRow("posted", now, pn.hold,
                                                   msgs + 1, now,
                                                   ReleaseAt(now, pn.hold)))
                    /\ postSeq' = postSeq + 1
                    /\ deals' = [deals EXCEPT !["D1"].status = "posted"]
                    /\ pn' = [pc |-> "done", hold |-> 0, res |-> "ok"]
               ELSE /\ pn' = [pc |-> "done", hold |-> 0, res |-> "error"]
                    /\ UNCHANGED <<posts, postSeq, deals>>
       ELSE /\ pn' = [pc |-> "done", hold |-> 0, res |-> "send_failed"]
            /\ UNCHANGED <<msgs, posts, postSeq, deals>>
    /\ UNCHANGED <<now, channel, wallets, txs, chain, tr, esc, vd, sched, cw,
                   cn, admins, perm, gd, clock, cache, nt, sentlog, env, ks,
                   rv, wl, gs, cached_balance, chans, cv>>

PostNowReturn ==
    /\ pn.pc = "done"
    /\ pn' = IdlePn
    /\ UNCHANGED <<now, deals, channel, wallets, txs, posts, postSeq, chain,
                   msgs, tr, esc, vd, sched, cw, cn, admins, perm, gd, clock,
                   cache, nt, sentlog, env, ks, rv, wl, gs, cached_balance,
                   chans, cv>>

\* update_post_status(post_id, status, ...): UPDATE ... WHERE id = ?
update_post_status(id, status, message_id, posted_at, release_at) ==
    [i \in DOMAIN posts |->
        IF i # id THEN posts[i]
        ELSE [posts[i] EXCEPT
                !.status = status,
                !.message_id = IF message_id # NULL THEN message_id ELSE @,
                !.posted_at = IF posted_at # NULL THEN posted_at ELSE @,
                !.release_at = IF release_at # NULL THEN release_at ELSE @,
                !.last_verified = now]]

\* update_deal_posted(deal_id, message_id)
update_deal_posted_skipped(message_id) == deals

update_deal_posted(message_id) ==
    [deals EXCEPT !["D1"].status = "posted"]

\* ------------------------------------------------- PostScheduler: post tick
\* the tick is over; what it did stays visible until the loop sleeps again
SchedDone(res) == [IdleSched EXCEPT !.pc = "done", !.res = res]

SchedSleep ==
    /\ sched.pc = "done"
    /\ sched' = IdleSched
    /\ UNCHANGED <<now, deals, channel, wallets, txs, posts, postSeq, chain,
                   msgs, tr, esc, vd, pn, cw, cn, admins, perm, gd, clock,
                   cache, nt, sentlog, env, ks, rv, wl, gs, cached_balance,
                   chans, cv>>

\* get_pending_posts
PendingPostsDueNow ==
    {i \in DOMAIN posts : posts[i].status = "scheduled"
                          /\ posts[i].scheduled_time = now}

PendingPosts ==
    {i \in DOMAIN posts : posts[i].status = "scheduled"
                          /\ posts[i].scheduled_time <= now}

PostTickStart ==
    /\ sched.pc = "idle"
    /\ \E id \in PendingPosts :
         /\ channel.telegram_channel_id # NULL
         /\ sched' = [IdleSched EXCEPT !.pc = "post_send", !.post = id,
                                       !.hold = posts[id].hold_hours]
    /\ UNCHANGED <<now, deals, channel, wallets, txs, posts, postSeq, chain,
                   msgs, tr, esc, vd, pn, cw, cn, admins, perm, gd, clock,
                   cache, nt, sentlog, env, ks, rv, wl, gs, cached_balance,
                   chans, cv>>

PostTickSend(sent_ok) ==
    /\ sched.pc = "post_send"
    /\ IF sent_ok
       THEN /\ msgs < MaxMsgs
            /\ msgs' = msgs + 1
            /\ posts' = update_post_status(sched.post, "posted", msgs + 1, now,
                                           ReleaseAt(now, sched.hold))
            /\ deals' = update_deal_posted(msgs + 1)
            /\ sched' = [SchedDone("posted") EXCEPT !.notify = "posted"]
       ELSE /\ sched' = SchedDone("send_failed")
            /\ UNCHANGED <<msgs, posts, deals>>
    /\ UNCHANGED <<now, channel, wallets, txs, postSeq, chain, tr, esc, vd, pn,
                   cw, cn, admins, perm, gd, clock, cache, nt, sentlog, env,
                   ks, rv, wl, gs, cached_balance, chans, cv>>

\* ----------------------------------------------- PostScheduler: verify tick
\* get_posts_for_verification
PostsForVerification ==
    {i \in DOMAIN posts : posts[i].status = "posted"
                          /\ posts[i].message_id # NULL /\ HasDeal}

VerifyTickStart ==
    /\ sched.pc = "idle"
    /\ \E id \in PostsForVerification :
         sched' = [IdleSched EXCEPT
                     !.pc = "verify_probe", !.post = id,
                     !.release_at = posts[id].release_at,
                     !.key = HasWallet,
                     !.dest = Or3(deals["D1"].channel_owner_wallet,
                                  channel.owner_ton_wallet, NoAddr)]
    /\ UNCHANGED <<now, deals, channel, wallets, txs, posts, postSeq, chain,
                   msgs, tr, esc, vd, pn, cw, cn, admins, perm, gd, clock,
                   cache, nt, sentlog, env, ks, rv, wl, gs, cached_balance,
                   chans, cv>>

\* verify_message_exists: the 'exists' and 'error' keys of its result
verify_message_exists(probe) ==
    CASE probe = "forwarded"    -> [exists |-> TRUE,  error |-> FALSE]
      [] probe = "not_found"    -> [exists |-> FALSE, error |-> FALSE]
      [] probe = "cant_forward" -> [exists |-> TRUE,  error |-> FALSE]
      [] OTHER                  -> [exists |-> FALSE, error |-> TRUE]

\* the branch _verify_posted_ads takes on the result of the probe
VerifyBranchEarly(result, release_at) ==
    IF result.exists THEN "release" ELSE "refund"

VerifyBranch(result, release_at) ==
    IF result.exists
    THEN (IF release_at # NULL /\ now >= release_at THEN "release" ELSE "hold")
    ELSE "refund"

Seen(result) ==
    IF result.error THEN "unknown" ELSE IF result.exists THEN "exists" ELSE "gone"

\* await verify_message_exists(...)
VerifyProbe(probe) ==
    /\ sched.pc = "verify_probe"
    /\ sched' = [sched EXCEPT !.pc = "verify_branch",
                              !.probe = Seen(verify_message_exists(probe))]
    /\ UNCHANGED <<now, deals, channel, wallets, txs, posts, postSeq, chain,
                   msgs, tr, esc, vd, pn, cw, cn, admins, perm, gd, clock,
                   cache, nt, sentlog, env, ks, rv, wl, gs, cached_balance,
                   chans, cv>>

\* the result dict of verify_message_exists as _verify_posted_ads reads it
ProbeResult(seen) == [exists |-> seen = "exists", error |-> seen = "unknown"]

VerifyAct ==
    /\ sched.pc = "verify_branch"
    /\ LET branch == VerifyBranch(ProbeResult(sched.probe), sched.release_at)
           refund_dest == deals["D1"].advertiser_wallet
           Done(res, kind) == [SchedDone(res) EXCEPT !.probe = sched.probe,
                                                     !.kind = kind]
       IN CASE branch = "hold" ->
                 /\ posts' = update_post_status(sched.post, "posted", NULL,
                                                NULL, NULL)
                 /\ sched' = Done("hold", "NULL")
            [] branch = "release" ->
                 IF ~sched.key \/ sched.dest = NoAddr
                 THEN /\ posts' = update_post_status(sched.post, "verified",
                                                     NULL, NULL, NULL)
                      /\ sched' = Done("missing_info", "release")
                 ELSE /\ sched' = [sched EXCEPT !.pc = "balance",
                                                !.kind = "release"]
                      /\ UNCHANGED posts
            [] OTHER ->
                 IF ~sched.key \/ refund_dest = NoAddr
                 THEN /\ posts' = update_post_status(sched.post, "refunded",
                                                     NULL, NULL, NULL)
                      /\ sched' = Done("missing_info", "refund")
                 ELSE /\ sched' = [sched EXCEPT !.pc = "balance",
                                                !.kind = "refund",
                                                !.dest = refund_dest]
                      /\ UNCHANGED posts
    /\ UNCHANGED <<now, deals, channel, wallets, txs, postSeq, chain, msgs, tr,
                   esc, vd, pn, cw, cn, admins, perm, gd, clock, cache, nt,
                   sentlog, env, ks, rv, wl, gs, cached_balance, chans, cv>>

FinalPostStatus(kind) == IF kind = "release" THEN "released" ELSE "refunded"

FinalDealStatus(kind) == IF kind = "release" THEN "completed" ELSE "refunded"

\* _release_escrow / _refund_escrow: the balance query
SchedBalance(rpc_ok) ==
    /\ sched.pc = "balance"
    /\ LET amount == get_wallet_balance(rpc_ok) IN
         IF amount > FEE_RESERVE
         THEN /\ sched' = [sched EXCEPT !.pc = "send", !.amount = amount]
              /\ UNCHANGED posts
         ELSE /\ posts' = update_post_status(sched.post,
                                             FinalPostStatus(sched.kind),
                                             NULL, NULL, NULL)
              /\ sched' = [SchedDone("no_funds") EXCEPT
                             !.probe = sched.probe, !.kind = sched.kind]
    /\ UNCHANGED <<now, deals, channel, wallets, txs, postSeq, chain, msgs, tr,
                   esc, vd, pn, cw, cn, admins, perm, gd, clock, cache, nt,
                   sentlog, env, ks, rv, wl, gs, cached_balance, chans, cv>>

\* the event handed to _send_notification after a successful transfer:
\* _release_escrow announces 'completed', _refund_escrow announces nothing
SchedNotification(kind) == IF kind = "release" THEN "completed" ELSE "NULL"

\* _release_escrow / _refund_escrow: the transfer and what follows it
SchedSend ==
    /\ sched.pc = "send"
    /\ \E result \in SendOutcomes(sched.amount) :
         IF result.success
         THEN /\ chain' = Sent("sched", sched.kind, sched.amount)
              /\ posts' = update_post_status(sched.post,
                                             FinalPostStatus(sched.kind),
                                             NULL, NULL, NULL)
              /\ deals' = [deals EXCEPT
                             !["D1"].status = FinalDealStatus(sched.kind)]
              /\ sched' = [SchedDone("sent") EXCEPT
                             !.probe = sched.probe, !.kind = sched.kind,
                             !.notify = SchedNotification(sched.kind)]
         ELSE /\ sched' = [SchedDone("send_failed") EXCEPT
                             !.probe = sched.probe, !.kind = sched.kind]
              /\ UNCHANGED <<chain, posts, deals>>
    /\ UNCHANGED <<now, channel, wallets, txs, postSeq, msgs, tr, esc, vd, pn,
                   cw, cn, admins, perm, gd, clock, cache, nt, sentlog, env,
                   ks, rv, wl, gs, cached_balance, chans, cv>>

\* --------------------------------------------------------------- encryption
\* Fernet(key) accepts the key
ValidFernetKey(key) == key >= 0

\* Fernet: a token is readable only with the key that made it
FernetEncrypt(key, data) == [key |-> key, data |-> data]

FernetDecrypt(key, token) ==
    IF token.key = key THEN [error |-> "none", data |-> token.data]
    ELSE [error |-> "InvalidToken", data |-> << >>]

\* " ".join(mnemonic)
RECURSIVE Join(_)
Join(mnemonic) ==
    IF Len(mnemonic) = 1 THEN mnemonic[1]
    ELSE mnemonic[1] \o <<" ">> \o Join(Tail(mnemonic))

\* str.split(" ")
RECURSIVE Split(_)
Split(str) ==
    IF \A i \in DOMAIN str : str[i] # " " THEN <<str>>
    ELSE LET k == CHOOSE i \in DOMAIN str :
                       str[i] = " " /\ \A j \in 1..(i - 1) : str[j] # " "
         IN <<SubSeq(str, 1, k - 1)>> \o Split(SubSeq(str, k + 1, Len(str)))

\* get_encryption_key(): the key of the environment when it is a Fernet key,
\* else a key generated by this call
get_encryption_key ==
    IF env # NULL /\ ValidFernetKey(env)
    THEN [key |-> env, generated |-> ks.generated]
    ELSE [key |-> ks.generated + 1, generated |-> ks.generated + 1]

encrypt_mnemonic(mnemonic) ==
    /\ ks.generated < MaxKeys
    /\ LET k == get_encryption_key
       IN ks' = [ks EXCEPT !.generated = k.generated,
                           !.mnemonic = mnemonic,
                           !.encrypted = FernetEncrypt(k.key, Join(mnemonic)),
                           !.res = "none", !.decrypted = << >>]
    /\ UNCHANGED <<now, deals, channel, wallets, txs, posts, postSeq, chain,
                   msgs, tr, esc, vd, pn, sched, cw, cn, admins, perm, gd,
                   clock, cache, nt, sentlog, env, rv, wl, gs, cached_balance,
                   chans, cv>>

decrypt_mnemonic ==
    /\ ks.encrypted # NoToken
    /\ ks.generated < MaxKeys
    /\ LET k == get_encryption_key
           decrypted == FernetDecrypt(k.key, ks.encrypted)
       IN ks' = [ks EXCEPT !.generated = k.generated,
                           !.res = IF decrypted.error = "none" THEN "ok"
                                   ELSE decrypted.error,
                           !.decrypted = IF decrypted.error = "none"
                                         THEN Split(decrypted.data)
                                         ELSE << >>]
    /\ UNCHANGED <<now, deals, channel, wallets, txs, posts, postSeq, chain,
                   msgs, tr, esc, vd, pn, sched, cw, cn, admins, perm, gd,
                   clock, cache, nt, sentlog, env, rv, wl, gs, cached_balance,
                   chans, cv>>

\* ------------------------------------------------------------ notifications
NOTIFICATION_ROUTING(event_type) ==
    CASE event_type = "accepted"  -> <<"advertiser">>
      [] event_type = "funded"    -> <<"channel_owner">>
      [] event_type = "scheduled" -> <<"advertiser", "channel_owner">>
      [] event_type = "posted"    -> <<"advertiser">>
      [] event_type = "verified"  -> <<"advertiser", "channel_owner">>
      [] event_type = "completed" -> <<"advertiser", "channel_owner">>
      [] event_type = "refunded"  -> <<"advertiser">>
      [] event_type = "cancelled" -> <<"advertiser", "channel_owner">>
      [] OTHER                    -> << >>

\* should_send_notification(deal_id, event_type) at the current time
should_send_always(event_type) == TRUE

should_send_notification(event_type) ==
    LET last_sent == cache[event_type] IN
      IF last_sent # NULL
      THEN ~(clock - last_sent < NOTIFICATION_COOLDOWN_SECONDS)
      ELSE TRUE

\* mark_notification_sent(deal_id, event_type)
mark_notification_sent(event_type) == [cache EXCEPT ![event_type] = clock]

\* notify_deal_participants: the recipients of the routing whose id is known
NotifyStart(c, event_type, advertiser_known, channel_owner_known) ==
    /\ nt[c].pc = "idle"
    /\ LET routing == NOTIFICATION_ROUTING(event_type)
           Known(recipient_type) ==
               \/ recipient_type = "advertiser" /\ advertiser_known
               \/ recipient_type = "channel_owner" /\ channel_owner_known
       IN nt' = [nt EXCEPT ![c] =
                    [IdleNt EXCEPT !.pc = "check", !.event = event_type,
                                   !.todo = SelectSeq(routing, Known),
                                   !.fresh = should_send_notification(event_type)]]
    /\ UNCHANGED <<now, deals, channel, wallets, txs, posts, postSeq, chain,
                   msgs, tr, esc, vd, pn, sched, cw, cn, admins, perm, gd,
                   clock, cache, sentlog, env, ks, rv, wl, gs, cached_balance,
                   chans, cv>>

\* send_notification up to its await: the anti-spam check; after the last
\* recipient notify_deal_participants has its result
NotifyCheck(c) ==
    /\ nt[c].pc = "check"
    /\ IF nt[c].todo = << >>
       THEN nt' = [nt EXCEPT ![c].pc = "done"]
       ELSE IF ~should_send_notification(nt[c].event)
       THEN nt' = [nt EXCEPT ![c].throttled = @ \cup {Head(nt[c].todo)},
                             ![c].todo = Tail(@)]
       ELSE nt' = [nt EXCEPT ![c].pc = "deliver"]
    /\ UNCHANGED <<now, deals, channel, wallets, txs, posts, postSeq, chain,
                   msgs, tr, esc, vd, pn, sched, cw, cn, admins, perm, gd,
                   clock, cache, sentlog, env, ks, rv, wl, gs, cached_balance,
                   chans, cv>>

\* await bot.send_message(...) and what follows it
NotifyDeliver(c, delivered) ==
    /\ nt[c].pc = "deliver"
    /\ IF delivered
       THEN /\ Len(sentlog) < MaxNotes
            /\ sentlog' = Append(sentlog, [to |-> Head(nt[c].todo),
                                           event |-> nt[c].event,
                                           at |-> clock, by |-> c])
            /\ cache' = mark_notification_sent(nt[c].event)
            /\ nt' = [nt EXCEPT ![c].pc = "check",
                                ![c].sent = @ \cup {Head(nt[c].todo)},
                                ![c].todo = Tail(@)]
       ELSE /\ nt' = [nt EXCEPT ![c].pc = "check",
                                ![c].failed = @ \cup {Head(nt[c].todo)},
                                ![c].todo = Tail(@)]
            /\ UNCHANGED <<sentlog, cache>>
    /\ UNCHANGED <<now, deals, channel, wallets, txs, posts, postSeq, chain,
                   msgs, tr, esc, vd, pn, sched, cw, cn, admins, perm, gd,
                   clock, env, ks, rv, wl, gs, cached_balance, chans, cv>>

NotifyReturn(c) ==
    /\ nt[c].pc = "done"
    /\ nt' = [nt EXCEPT ![c] = IdleNt]
    /\ UNCHANGED <<now, deals, channel, wallets, txs, posts, postSeq, chain,
                   msgs, tr, esc, vd, pn, sched, cw, cn, admins, perm, gd,
                   clock, cache, sentlog, env, ks, rv, wl, gs, cached_balance,
                   chans, cv>>

\* PostScheduler._send_notification after a state change of the tick: the
\* first routed recipient gets the message when the cooldown and the platform
\* allow it (the second one is then inside the cooldown); nothing is written
\* to the database and no error leaves the call
SchedNotify(delivered) ==
    /\ sched.pc = "done"
    /\ sched.notify # "NULL"
    /\ IF delivered /\ should_send_notification(sched.notify)
       THEN /\ Len(sentlog) < MaxNotes
            /\ sentlog' = Append(sentlog,
                                 [to |-> Head(NOTIFICATION_ROUTING(sched.notify)),
                                  event |-> sched.notify, at |-> clock,
                                  by |-> "sched"])
            /\ cache' = mark_notification_sent(sched.notify)
       ELSE UNCHANGED <<sentlog, cache>>
    /\ sched' = [sched EXCEPT !.notify = "NULL"]
    /\ UNCHANGED <<now, deals, channel, wallets, txs, posts, postSeq, chain,
                   msgs, tr, esc, vd, pn, cw, cn, admins, perm, gd, clock, nt,
                   env, ks, rv, wl, gs, cached_balance, chans, cv>>

\* --------------------------------------------------- api_get_escrow_status
\* is_funded = current_balance >= expected * 0.99 if expected > 0 else False
is_funded_unguarded(current_balance, expected) ==
    100 * current_balance >= 99 * expected

is_funded(current_balance, expected) ==
    IF expected > 0 THEN 100 * current_balance >= 99 * expected ELSE FALSE

\* the SELECT of the deal and its wallet, up to the balance query
StatusRead ==
    /\ gs.pc = "idle"
    /\ IF ~HasDeal \/ ~HasWallet
       THEN gs' = [IdleGs EXCEPT !.pc = "done", !.code = 404]
       ELSE gs' = [IdleGs EXCEPT !.pc = "balance",
                                 !.expected = deals["D1"].escrow_amount]
    /\ UNCHANGED <<now, deals, channel, wallets, txs, posts, postSeq, chain,
                   msgs, tr, esc, vd, pn, sched, cw, cn, admins, perm, gd,
                   clock, cache, nt, sentlog, env, ks, rv, wl, cached_balance,
                   chans, cv>>

\* the live balance, the verdict and the UPDATE of the cached balance
StatusFinish(rpc_ok) ==
    /\ gs.pc = "balance"
    /\ LET current_balance == get_wallet_balance(rpc_ok)
       IN /\ gs' = [gs EXCEPT !.pc = "done", !.code = 200,
                              !.current_balance = current_balance,
                              !.is_funded = is_funded(current_balance,
                                                      gs.expected)]
          /\ cached_balance' = current_balance
    /\ UNCHANGED <<now, deals, channel, wallets, txs, posts, postSeq, chain,
                   msgs, tr, esc, vd, pn, sched, cw, cn, admins, perm, gd,
                   clock, cache, nt, sentlog, env, ks, rv, wl, chans, cv>>

StatusReturn ==
    /\ gs.pc = "done"
    /\ gs' = IdleGs
    /\ UNCHANGED <<now, deals, channel, wallets, txs, posts, postSeq, chain,
                   msgs, tr, esc, vd, pn, sched, cw, cn, admins, perm, gd,
                   clock, cache, nt, sentlog, env, ks, rv, wl, cached_balance,
                   chans, cv>>

\* ------------------------------------------------ PostScheduler._run_loop
\* one pass of the while loop up to the first tick that is due, or to sleep
LoopTop ==
    /\ wl.pc = "top"
    /\ LET post_counter == wl.post_counter + 1
           verify_counter == wl.verify_counter + 1
       IN wl' = [wl EXCEPT
                   !.post_counter = IF post_counter >= POST_EVERY THEN 0
                                    ELSE post_counter,
                   !.verify_counter = verify_counter,
                   !.pc = IF post_counter >= POST_EVERY THEN "post_tick"
                          ELSE IF verify_counter >= VERIFY_EVERY
                          THEN "verify_tick" ELSE "sleep"]
    /\ UNCHANGED <<now, deals, channel, wallets, txs, posts, postSeq, chain,
                   msgs, tr, esc, vd, pn, sched, cw, cn, admins, perm, gd,
                   clock, cache, nt, sentlog, env, ks, rv, gs, cached_balance,
                   chans, cv>>

\* posts = get_pending_posts() / get_posts_for_verification(): the rows the
\* tick will go through (none when the query fails)
TickSelect(rows) ==
    /\ wl.pc \in {"post_tick", "verify_tick"}
    /\ wl' = [wl EXCEPT !.kind = wl.pc, !.pc = "item", !.posts = rows,
                        !.done = << >>,
                        !.verify_counter = IF wl.pc = "verify_tick" THEN 0
                                           ELSE @]
    /\ UNCHANGED <<now, deals, channel, wallets, txs, posts, postSeq, chain,
                   msgs, tr, esc, vd, pn, sched, cw, cn, admins, perm, gd,
                   clock, cache, nt, sentlog, env, ks, rv, gs, cached_balance,
                   chans, cv>>

\* the except clause around the body of the for loop: log, go on
ItemExceptReraise(outcome) == IF outcome = "exception" THEN "raise" ELSE "continue"

ItemExcept(outcome) == "continue"

\* the body of the for loop for the next row, or the end of the tick; an
\* exception that leaves the tick is caught by _run_loop, which sleeps and
\* goes round again
TickItem(outcome) ==
    /\ wl.pc = "item"
    /\ IF Len(wl.done) = Len(wl.posts)
       THEN wl' = [wl EXCEPT !.pc = "tick_end"]
       ELSE LET post == wl.posts[Len(wl.done) + 1]
                done == Append(wl.done, [post |-> post, outcome |-> outcome])
            IN IF ItemExcept(outcome) = "continue"
               THEN wl' = [wl EXCEPT !.done = done]
               ELSE wl' = [wl EXCEPT !.done = done, !.pc = "sleep",
                                     !.escaped = 1]
    /\ UNCHANGED <<now, deals, channel, wallets, txs, posts, postSeq, chain,
                   msgs, tr, esc, vd, pn, sched, cw, cn, admins, perm, gd,
                   clock, cache, nt, sentlog, env, ks, rv, gs, cached_balance,
                   chans, cv>>

\* after a tick: the verify tick when it is due too, else time.sleep(1)
TickEnd ==
    /\ wl.pc = "tick_end"
    /\ wl' = [wl EXCEPT !.pc = IF wl.kind = "post_tick"
                                  /\ wl.verify_counter >= VERIFY_EVERY
                               THEN "verify_tick" ELSE "sleep"]
    /\ UNCHANGED <<now, deals, channel, wallets, txs, posts, postSeq, chain,
                   msgs, tr, esc, vd, pn, sched, cw, cn, admins, perm, gd,
                   clock, cache, nt, sentlog, env, ks, rv, gs, cached_balance,
                   chans, cv>>

LoopSleep ==
    /\ wl.pc = "sleep"
    /\ wl' = [wl EXCEPT !.pc = "top", !.kind = "NULL", !.posts = << >>,
                        !.done = << >>]
    /\ UNCHANGED <<now, deals, channel, wallets, txs, posts, postSeq, chain,
                   msgs, tr, esc, vd, pn, sched, cw, cn, admins, perm, gd,
                   clock, cache, nt, sentlog, env, ks, rv, gs, cached_balance,
                   chans, cv>>

\* ---------------------------------------------------------------------- Next
\* deal creation, the escrow address and the deposit check
Common ==
    \/ \E a \in DepositAmounts : Deposit(a)
    \/ \E s \in RequestStatuses, a \in EscrowAmounts : api_create_deal(s, a)
    \/ api_create_escrow_wallet
    \/ CanStart /\ \E hint \in Addrs : VerifyStart(hint)
    \/ \E ok \in BOOLEAN : VerifyFinish(ok)
    \/ VerifyReturn

\* the HTTP handlers on deals and escrow
Next ==
    \/ Common
    \/ CanStart /\ \E s \in States : TransitionRead("c1", s, FALSE)
    \/ TransitionUpdate("c1", FALSE)
    \/ \E r \in Roles \cup {NoRole} : api_accept_deal(r)
    \/ \E r \in Roles \cup {NoRole} : api_post_ad(r)
    \/ \E r \in Roles \cup {NoRole} : api_release_escrow(r)
    \/ CanStart /\ \E kind \in {"release", "refund"}, hint \in Addrs :
                        EscrowStart(kind, hint)
    \/ \E ok \in BOOLEAN : EscrowBalance(ok)
    \/ EscrowSend
    \/ EscrowReturn

Spec == Init /\ [][Next]_vars

\* the auto-poster endpoints and the PostScheduler thread
NextPoster ==
    \/ Common
    \/ Tick
    \/ \E r \in Roles \cup {NoRole} : api_accept_deal(r)
    \/ \E t \in 0..MaxTime, h \in HoldHours : api_schedule_post(t, h)
    \/ api_cancel_scheduled_post
    \/ CanStart /\ \E h \in HoldHours : PostNowStart(h)
    \/ \E ok \in BOOLEAN : PostNowSend(ok)
    \/ PostNowReturn
    \/ CanStart /\ PostTickStart
    \/ \E ok \in BOOLEAN : PostTickSend(ok)
    \/ CanStart /\ VerifyTickStart
    \/ \E probe \in ProbeResults : VerifyProbe(probe)
    \/ VerifyAct
    \/ \E ok \in BOOLEAN : SchedBalance(ok)
    \/ SchedSend
    \/ SchedSleep

SpecPoster == Init /\ [][NextPoster]_vars

\* api_transition_deal called by two clients; no other writer of the deal
NextFSM ==
    \/ \E s \in RequestStatuses, a \in EscrowAmounts : api_create_deal(s, a)
    \/ \E c \in Callers, s \in States : TransitionRead(c, s, TRUE)
    \/ \E c \in Callers : TransitionUpdate(c, TRUE)
    \/ \E c \in Callers : TransitionReturn(c)

SpecFSM == Init /\ [][NextFSM]_vars

\* the deposit check among the handlers that write the status of the deal
NextDeposit ==
    \/ Common
    \/ CanStart /\ \E s \in States : TransitionRead("c1", s, FALSE)
    \/ TransitionUpdate("c1", FALSE)
    \/ \E r \in Roles \cup {NoRole} : api_accept_deal(r)
    \/ \E r \in Roles \cup {NoRole} : api_post_ad(r)
    \/ \E r \in Roles \cup {NoRole} : api_release_escrow(r)

SpecDeposit == Init /\ [][NextDeposit]_vars

\* the PostScheduler and the posting endpoints on a deal that was accepted
NextVerifyTick ==
    \/ Tick
    \/ \E a \in DepositAmounts : Deposit(a)
    \/ \E s \in RequestStatuses, a \in EscrowAmounts : api_create_deal(s, a)
    \/ api_create_escrow_wallet
    \/ \E r \in Roles \cup {NoRole} : api_accept_deal(r)
    \/ \E t \in 0..MaxTime, h \in HoldHours : api_schedule_post(t, h)
    \/ api_cancel_scheduled_post
    \/ CanStart /\ \E h \in HoldHours : PostNowStart(h)
    \/ \E ok \in BOOLEAN : PostNowSend(ok)
    \/ PostNowReturn
    \/ CanStart /\ PostTickStart
    \/ \E ok \in BOOLEAN : PostTickSend(ok)
    \/ CanStart /\ VerifyTickStart
    \/ \E probe \in ProbeResults : VerifyProbe(probe)
    \/ VerifyAct
    \/ \E ok \in BOOLEAN : SchedBalance(ok)
    \/ SchedSend
    \/ SchedSleep

SpecVerifyTick == Init /\ [][NextVerifyTick]_vars

\* the writers of escrow_wallets and scheduled_posts: escrow/create called by
\* two clients, the posting endpoints and the PostScheduler before any
\* deposit (without funds its ticks post, hold or mark the post refunded)
NextRows ==
    \/ \E s \in RequestStatuses, a \in EscrowAmounts : api_create_deal(s, a)
    \/ CanStart /\ \E c \in Callers : CreateWalletRead(c)
    \/ \E c \in Callers : CreateWalletInsert(c)
    \/ \E c \in Callers : CreateWalletReturn(c)
    \/ \E r \in Roles \cup {NoRole} : api_accept_deal(r)
    \/ \E t \in 0..MaxTime, h \in HoldHours : api_schedule_post(t, h)
    \/ api_cancel_scheduled_post
    \/ CanStart /\ \E h \in HoldHours : PostNowStart(h)
    \/ \E ok \in BOOLEAN : PostNowSend(ok)
    \/ PostNowReturn
    \/ CanStart /\ PostTickStart
    \/ \E ok \in BOOLEAN : PostTickSend(ok)
    \/ CanStart /\ VerifyTickStart
    \/ \E probe \in ProbeResults : VerifyProbe(probe)
    \/ VerifyAct
    \/ SchedSleep

SpecRows == Init /\ [][NextRows]_vars

\* the writers of posted_at, release_at and hold_hours, with posts of
\* different hold periods, on an escrow address that holds no funds
NextHold ==
    \/ Tick
    \/ \E s \in RequestStatuses, a \in EscrowAmounts : api_create_deal(s, a)
    \/ api_create_escrow_wallet
    \/ \E r \in Roles \cup {NoRole} : api_accept_deal(r)
    \/ \E t \in 0..MaxTime, h \in HoldPeriods : api_schedule_post(t, h)
    \/ api_cancel_scheduled_post
    \/ CanStart /\ \E h \in HoldPeriods : PostNowStart(h)
    \/ \E ok \in BOOLEAN : PostNowSend(ok)
    \/ PostNowReturn
    \/ CanStart /\ PostTickStart
    \/ \E ok \in BOOLEAN : PostTickSend(ok)
    \/ CanStart /\ VerifyTickStart
    \/ \E probe \in ProbeResults : VerifyProbe(probe)
    \/ VerifyAct
    \/ \E ok \in BOOLEAN : SchedBalance(ok)
    \/ SchedSleep

SpecHold == Init /\ [][NextHold]_vars

\* post/cancel with its answers, among the other writers of scheduled_posts
NextCancel ==
    \/ Tick
    \/ \E s \in RequestStatuses, a \in EscrowAmounts : api_create_deal(s, a)
    \/ \E r \in Roles \cup {NoRole} : api_accept_deal(r)
    \/ \E t \in 0..MaxTime, h \in HoldHours : api_schedule_post(t, h)
    \/ CanStart /\ CancelPost
    \/ CancelReturn
    \/ CanStart /\ \E h \in HoldHours : PostNowStart(h)
    \/ \E ok \in BOOLEAN : PostNowSend(ok)
    \/ PostNowReturn
    \/ CanStart /\ PostTickStart
    \/ \E ok \in BOOLEAN : PostTickSend(ok)
    \/ CanStart /\ VerifyTickStart
    \/ \E probe \in ProbeResults : VerifyProbe(probe)
    \/ VerifyAct
    \/ SchedSleep

SpecCancel == Init /\ [][NextCancel]_vars

\* the channel_admins table and the permission check
NextPermissions ==
    \/ \E u \in Users, r \in Roles : set_channel_admin(u, r)
    \/ \E u \in Users : remove_channel_admin(u)
    \/ \E u \in Users, a \in Actions : api_check_permission(u, a)
    \/ PermissionReturn

SpecPermissions == Init /\ [][NextPermissions]_vars

\* accept, post and release called by the users of the channel_admins table
NextGate ==
    \/ \E s \in RequestStatuses, a \in EscrowAmounts : api_create_deal(s, a)
    \/ \E u \in Users, r \in Roles : set_channel_admin(u, r)
    \/ \E u \in Users : remove_channel_admin(u)
    \/ \E u \in Users, a \in {"accept_deal", "post_ad", "release_escrow"} :
           GatedDealAction(u, a)
    \/ GatedReturn

SpecGate == Init /\ [][NextGate]_vars

\* the scheduler with the notifications it sends after posting and release
NextNotice ==
    \/ Tick
    \/ Deposit(100)
    \/ \E s \in RequestStatuses, a \in EscrowAmounts : api_create_deal(s, a)
    \/ api_create_escrow_wallet
    \/ \E r \in Roles \cup {NoRole} : api_accept_deal(r)
    \/ \E t \in 0..MaxTime, h \in HoldHours : api_schedule_post(t, h)
    \/ CanStart /\ PostTickStart
    \/ \E ok \in BOOLEAN : PostTickSend(ok)
    \/ CanStart /\ VerifyTickStart
    \/ \E probe \in ProbeResults : VerifyProbe(probe)
    \/ VerifyAct
    \/ \E ok \in BOOLEAN : SchedBalance(ok)
    \/ SchedSend
    \/ \E ok \in BOOLEAN : SchedNotify(ok)
    \/ sched.notify = "NULL" /\ SchedSleep

SpecNotice == Init /\ [][NextNotice]_vars

\* the status check on a deal with an escrow address and payments to it
NextStatus ==
    \/ \E a \in StatusDeposits : Deposit(a)
    \/ \E s \in RequestStatuses, a \in EscrowAmounts : api_create_deal(s, a)
    \/ api_create_escrow_wallet
    \/ StatusRead
    \/ \E ok \in BOOLEAN : StatusFinish(ok)
    \/ StatusReturn

SpecStatus == Init /\ [][NextStatus]_vars

\* channels created, registered and re-verified
NextChannels ==
    \/ \E u \in ChannelNames : api_create_channel(u)
    \/ \E op \in {"register", "update"}, u \in ChannelNames :
           ChannelVerifyStart(op, u)
    \/ \E chat_ok \in BOOLEAN, member_ok \in BOOLEAN,
          st \in MemberStatuses, p \in FlagValues :
           ChannelVerifyFinish(chat_ok, member_ok, st, p)
    \/ ChannelVerifyReturn

SpecChannels == Init /\ [][NextChannels]_vars

\* release and refund by the endpoints and by the scheduler, interleaved,
\* with transfers to the escrow address before and after a payout
NextPayout ==
    \/ Tick
    \/ Deposit(100)
    \/ DepositAfterPayout(100)
    \/ \E s \in RequestStatuses, a \in EscrowAmounts : api_create_deal(s, a)
    \/ api_create_escrow_wallet
    \/ CanStart /\ VerifyStart(NoAddr)
    \/ \E ok \in BOOLEAN : VerifyFinish(ok)
    \/ VerifyReturn
    \/ CanStart /\ \E h \in HoldHours : PostNowStart(h)
    \/ \E ok \in BOOLEAN : PostNowSend(ok)
    \/ PostNowReturn
    \/ CanStart /\ \E kind \in {"release", "refund"}, hint \in Addrs :
                        EscrowStart(kind, hint)
    \/ \E ok \in BOOLEAN : EscrowBalance(ok)
    \/ EscrowSend
    \/ EscrowReturn
    \/ CanStart /\ VerifyTickStart
    \/ \E probe \in ProbeResults : VerifyProbe(probe)
    \/ VerifyAct
    \/ \E ok \in BOOLEAN : SchedBalance(ok)
    \/ SchedSend
    \/ SchedSleep

SpecPayout == Init /\ [][NextPayout]_vars

\* the post tick next to the state machine's transitions of the deal
NextPostTick ==
    \/ Tick
    \/ \E s \in RequestStatuses, a \in EscrowAmounts : api_create_deal(s, a)
    \/ \E r \in Roles \cup {NoRole} : api_accept_deal(r)
    \/ \E t \in 0..MaxTime, h \in HoldHours : api_schedule_post(t, h)
    \/ CanStart /\ \E s \in States : TransitionRead("c1", s, FALSE)
    \/ TransitionUpdate("c1", FALSE)
    \/ CanStart /\ PostTickStart
    \/ \E ok \in BOOLEAN : PostTickSend(ok)
    \/ SchedSleep

SpecPostTick == Init /\ [][NextPostTick]_vars

\* the worker loop and the rows of its ticks
NextLoop ==
    \/ LoopTop
    \/ \E rows \in Batches : TickSelect(rows)
    \/ \E outcome \in ItemOutcomes : TickItem(outcome)
    \/ TickEnd
    \/ LoopSleep

SpecLoop == Init /\ [][NextLoop]_vars

\* admin rights re-verified against the platform while roles are edited
NextReverify ==
    \/ \E u \in Users, r \in Roles : set_channel_admin(u, r)
    \/ \E u \in Users : remove_channel_admin(u)
    \/ \E u \in Users : ReverifyStart(u)
    \/ \E ok \in BOOLEAN, st \in MemberStatuses,
          p \in FlagValues, m \in FlagValues : ReverifyFinish(ok, st, p, m)
    \/ ReverifyReturn

SpecReverify == Init /\ [][NextReverify]_vars

\* release and refund, by the endpoints and by the scheduler, on a deal
\* posted at once; one request or tick at a time
NextSend ==
    \/ Tick
    \/ Deposit(100)
    \/ \E s \in RequestStatuses, a \in EscrowAmounts : api_create_deal(s, a)
    \/ api_create_escrow_wallet
    \/ InFlight = 0 /\ VerifyStart(NoAddr)
    \/ \E ok \in BOOLEAN : VerifyFinish(ok)
    \/ VerifyReturn
    \/ InFlight = 0 /\ \E h \in HoldHours : PostNowStart(h)
    \/ \E ok \in BOOLEAN : PostNowSend(ok)
    \/ PostNowReturn
    \/ InFlight = 0 /\ \E kind \in {"release", "refund"}, hint \in Addrs :
                        EscrowStart(kind, hint)
    \/ \E ok \in BOOLEAN : EscrowBalance(ok)
    \/ EscrowSend
    \/ EscrowReturn
    \/ InFlight = 0 /\ VerifyTickStart
    \/ \E probe \in ProbeResults : VerifyProbe(probe)
    \/ VerifyAct
    \/ \E ok \in BOOLEAN : SchedBalance(ok)
    \/ SchedSend
    \/ SchedSleep

SpecSend == Init /\ [][NextSend]_vars

\* the mnemonic store under every setting of ESCROW_SECRET_KEY
NextKeys ==
    \/ \E m \in Mnemonics : encrypt_mnemonic(m)
    \/ decrypt_mnemonic

SpecKeys == InitKeys /\ [][NextKeys]_vars

\* the notifier called by one task at a time
NextNotify ==
    \/ Elapse
    \/ \E e \in NotifyEvents, a \in BOOLEAN, o \in BOOLEAN :
           NotifyStart("c1", e, a, o)
    \/ NotifyCheck("c1")
    \/ \E ok \in BOOLEAN : NotifyDeliver("c1", ok)
    \/ NotifyReturn("c1")

SpecNotify == Init /\ [][NextNotify]_vars

\* the notifier called by two tasks (the scheduler's loop and a request
\* thread's own event loop) within one cooldown, both participants known
NextNotifyTwo ==
    \/ \E c \in Callers, e \in NotifyEvents : NotifyStart(c, e, TRUE, TRUE)
    \/ \E c \in Callers : NotifyCheck(c)
    \/ \E c \in Callers, ok \in BOOLEAN : NotifyDeliver(c, ok)
    \/ \E c \in Callers : NotifyReturn(c)

SpecNotifyTwo == Init /\ [][NextNotifyTwo]_vars

\* ==================================================================== claims
\* the transition table of the deal lifecycle as the specification prints it
DealFSMEdges ==
    {<<"pending", "accepted">>, <<"pending", "cancelled">>,
     <<"accepted", "funded">>, <<"accepted", "cancelled">>,
     <<"funded", "scheduled">>, <<"funded", "posted">>, <<"funded", "refunded">>,
     <<"scheduled", "posted">>, <<"scheduled", "cancelled">>,
     <<"scheduled", "refunded">>,
     <<"posted", "verified">>, <<"posted", "refunded">>,
     <<"verified", "completed">>, <<"verified", "refunded">>}

TerminalStates == {"completed", "refunded", "cancelled"}

\* C1: the status of the deal is always one of the nine states of the deal
\* lifecycle, and every step that changes the persisted status goes along an
\* edge of the transition table.
C1_StatusFollowsTable ==
    [][HasDeal' =>
          /\ deals'["D1"].status \in States
          /\ (HasDeal /\ deals'["D1"].status # deals["D1"].status
                => <<deals["D1"].status, deals'["D1"].status>> \in DealFSMEdges)]_vars

\* C2: once the deal is completed, refunded or cancelled, no step changes its
\* status or any other field of its row.
C2_TerminalNeverMutated ==
    [][HasDeal /\ deals["D1"].status \in TerminalStates => deals' = deals]_vars

\* the next states the table allows from a status
AllowedNext(s) == {t \in States : <<s, t>> \in DealFSMEdges}

Range(seq) == {seq[i] : i \in DOMAIN seq}

\* C3 (as stated): a finished Transition call succeeded if and only if the
\* status it found and the requested state are an edge of the table; any other
\* call was rejected as invalid, listing the allowed next states.
C3_SucceedsIffEdge ==
    \A c \in Callers :
        tr[c].pc = "done" =>
            /\ tr[c].res = "success" <=> <<tr[c].old, tr[c].target>> \in DealFSMEdges
            /\ <<tr[c].old, tr[c].target>> \notin DealFSMEdges
                 => tr[c].res = "invalid" /\ Range(tr[c].allowed) = AllowedNext(tr[c].old)

\* C3 (amended): a Transition call is rejected as invalid exactly when the
\* status it reads and the requested state are not an edge of the table; the
\* rejection lists the allowed next states of that status and leaves the deal
\* unchanged.  A call that passed this test succeeds exactly when the status
\* is still the one it read when its UPDATE runs, and then the status becomes
\* the requested state; otherwise it fails and leaves the deal unchanged.
C3_TransitionOutcome ==
    [][\A c \in Callers :
          /\ tr[c].pc = "idle" /\ tr'[c].pc # "idle"
               => /\ tr'[c].old = deals["D1"].status
                  /\ tr'[c].pc = "done" <=>
                        <<tr'[c].old, tr'[c].target>> \notin DealFSMEdges
          /\ tr[c].pc # "done" /\ tr'[c].pc = "done"
               => /\ tr'[c].res = "invalid" <=>
                        <<tr'[c].old, tr'[c].target>> \notin DealFSMEdges
                  /\ tr'[c].res = "invalid"
                        => /\ Range(tr'[c].allowed) = AllowedNext(tr'[c].old)
                           /\ deals' = deals
                  /\ tr'[c].res = "success" <=>
                        /\ <<tr'[c].old, tr'[c].target>> \in DealFSMEdges
                        /\ deals["D1"].status = tr'[c].old
                  /\ tr'[c].res = "success"
                        => deals' = [deals EXCEPT !["D1"].status = tr'[c].target]
                  /\ tr'[c].res # "success" => deals' = deals]_vars

\* a request to go from pending straight to posted has been rejected with the
\* allowed next states accepted and cancelled, and the deal is still pending
C3_Witness ==
    \E c \in Callers :
        /\ tr[c].pc = "done" /\ tr[c].res = "invalid"
        /\ tr[c].old = "pending" /\ tr[c].target = "posted"
        /\ tr[c].allowed = <<"accepted", "cancelled">>
        /\ deals["D1"].status = "pending"

\* C4: of two finished Transition calls for the same target state at most one
\* succeeded, the other was rejected as a concurrent modification or as an
\* invalid transition, and when both found a status that allows the target
\* exactly one succeeded.
C4_OneWinner ==
    \A c1, c2 \in Callers :
        (/\ c1 # c2
         /\ tr[c1].pc = "done" /\ tr[c2].pc = "done"
         /\ tr[c1].target = tr[c2].target)
        => /\ ~(tr[c1].res = "success" /\ tr[c2].res = "success")
           /\ tr[c1].res = "success" => tr[c2].res \in {"concurrent", "invalid"}
           /\ tr[c1].res # "invalid" /\ tr[c2].res # "invalid"
                => \E w \in {c1, c2} : tr[w].res = "success"

\* both callers asked for accepted while the deal was pending: one succeeded,
\* the other lost the compare-and-set
C4_Witness ==
    /\ tr["c1"].pc = "done" /\ tr["c2"].pc = "done"
    /\ tr["c1"].target = "accepted" /\ tr["c2"].target = "accepted"
    /\ tr["c1"].old = "pending" /\ tr["c2"].old = "pending"
    /\ tr["c1"].res = "success" /\ tr["c2"].res = "concurrent"
    /\ deals["D1"].status = "accepted"

\* C5: when the existence probe fails with an unclassified error, the step the
\* verify tick takes on it ends the handling of the post without a release or
\* refund and changes neither the post's status nor the deal.
C5_UnknownProbeNoChange ==
    [][sched.pc = "verify_branch" /\ sched.probe = "unknown" /\ sched' # sched
          => /\ sched'.pc = "done"
             /\ sched'.kind = "NULL"
             /\ deals' = deals
             /\ DOMAIN posts' = DOMAIN posts
             /\ \A i \in DOMAIN posts : posts'[i].status = posts[i].status]_vars

\* C6: a step in which a release or refund endpoint sends funds starts in a
\* state where the deal is funded, posted or verified.
C6_SendOnlyWhenReleasable ==
    [][(/\ Len(chain'.sent) > Len(chain.sent)
        /\ chain'.sent[Len(chain'.sent)].by = "api")
          => deals["D1"].status \in {"funded", "posted", "verified"}]_vars

\* C7: for each kind, release and refund, there are as many transaction rows
\* of that kind as successful outbound transfers of that kind.
C7_OneRowPerTransfer ==
    \A k \in {"release", "refund"} :
        Cardinality({i \in DOMAIN chain.sent : chain.sent[i].kind = k})
          = Cardinality({i \in DOMAIN txs : txs[i].tx_type = k})

\* C8: a released post belongs to a completed deal and a refunded post to a
\* refunded deal.
C8_PostOutcomeMatchesDeal ==
    \A i \in DOMAIN posts :
        /\ posts[i].status = "released" => deals["D1"].status = "completed"
        /\ posts[i].status = "refunded" => deals["D1"].status = "refunded"

\* C9: when the verify tick finds the message present before release_at, its
\* step ends the handling of the post: the post was and stays posted with only
\* last_verified set to the current time, and the deal, the chain and the
\* transaction rows are untouched.
C9_HoldKeepsPosted ==
    [][(/\ sched.pc = "verify_branch" /\ sched.probe = "exists"
        /\ sched.release_at # NULL /\ now < sched.release_at
        /\ sched' # sched)
          => /\ sched'.pc = "done" /\ sched'.res = "hold"
             /\ posts[sched.post].status = "posted"
             /\ posts' = [posts EXCEPT ![sched.post].last_verified = now]
             /\ deals' = deals /\ chain' = chain /\ txs' = txs]_vars

\* the tick has just left a present message alone during the hold period
C9_Witness ==
    /\ sched.pc = "done" /\ sched.res = "hold" /\ sched.probe = "exists"
    /\ \E i \in DOMAIN posts :
         /\ posts[i].status = "posted"
         /\ posts[i].last_verified = now
         /\ now < posts[i].release_at
    /\ chain.balance > FEE_RESERVE

\* C10: the step of the deposit check that writes its result changes the
\* status only from pending or accepted and only to funded; in any other
\* status it leaves the deal row as it is.
C10_FundedOnlyFromPendingAccepted ==
    [][vd.pc = "check" /\ vd'.pc = "done"
          => /\ deals'["D1"].status # deals["D1"].status
                  => /\ deals["D1"].status \in {"pending", "accepted"}
                     /\ deals'["D1"].status = "funded"
             /\ deals["D1"].status \notin {"pending", "accepted"}
                  => deals' = deals]_vars

\* the threshold was met for a deal that is already posted: nothing written
C10_Witness ==
    /\ vd.pc = "done" /\ vd.res = "funded" /\ vd.rowcount = 0
    /\ deals["D1"].status = "posted"
    /\ deals["D1"].escrow_amount > 0

\* rows of escrow_transactions written by the deposit check
DepositRows == {i \in DOMAIN txs : txs[i].tx_type = "deposit"}

\* C11: deposit checks that see the same chain state report the same top
\* transaction hash, the absent hash included, and only the first of them
\* inserts a DEPOSIT row: no two DEPOSIT rows carry the same reported hash.
C11_NoSecondDepositRow ==
    \A i, j \in DepositRows : txs[i].tx_hash = txs[j].tx_hash => i = j

\* C12: at every moment the deal has at most one row in escrow_wallets and at
\* most one row in scheduled_posts.
C12_OneWalletOnePost ==
    /\ Cardinality({w \in wallets : w.deal_id = "D1"}) <= 1
    /\ Cardinality(PostsOfDeal) <= 1

\* a second escrow/create and a post/now both ran into the row that another
\* call had inserted in the meantime
C12_Witness ==
    /\ \E c \in Callers : cw[c].pc = "done" /\ cw[c].res = "error"
    /\ pn.pc = "done" /\ pn.res = "error"
    /\ Cardinality(wallets) = 1 /\ Cardinality(PostsOfDeal) = 1

\* C13: a call of escrow/create that finds a wallet for the deal answers at
\* once with success and the address of that wallet, generates nothing and
\* leaves escrow_wallets as it is, whatever other calls are in flight; and no
\* call adds a row to escrow_wallets once the deal has one.
C13_CreateWalletIdempotent ==
    [][/\ \A c \in Callers :
            (HasWallet /\ cw[c].pc = "idle" /\ cw'[c].pc # "idle")
              => /\ cw'[c].pc = "done" /\ cw'[c].res = "exists"
                 /\ \E w \in wallets : w.deal_id = "D1" /\ cw'[c].address = w.address
                 /\ wallets' = wallets
       /\ HasWallet => wallets' = wallets]_vars

\* two calls made while the deal had its wallet both hold the answer with the
\* address that the first call of all had stored
C13_Witness ==
    /\ wallets = {WalletRow("c1")}
    /\ cw["c1"].pc = "done" /\ cw["c1"].res = "exists" /\ cw["c1"].address = "c1"
    /\ cw["c2"].pc = "done" /\ cw["c2"].res = "exists" /\ cw["c2"].address = "c1"

\* C14: while the deal is completed, refunded or cancelled, a call of
\* escrow/create stores no wallet, and a call of escrow/verify, escrow/release
\* or escrow/refund that starts is answered at once with an error, before any
\* chain query, leaving the deal, the wallet and the transaction rows as they
\* are.
C14_TerminalDealRejected ==
    [][(HasDeal /\ deals["D1"].status \in TerminalStates)
          => /\ wallets' = wallets
             /\ (vd.pc = "idle" /\ vd'.pc # "idle")
                  => /\ vd'.pc = "done" /\ vd'.res \notin {"funded", "not_funded"}
                     /\ deals' = deals /\ txs' = txs
             /\ (esc.pc = "idle" /\ esc'.pc # "idle")
                  => /\ esc'.pc = "done" /\ esc'.res # "ok"
                     /\ deals' = deals /\ txs' = txs]_vars

\* C15: when the live balance of the escrow address is at most the fee
\* reserve, the step of the scheduler's release or refund that has queried the
\* balance sends nothing, leaves the status of the deal as it is and does not
\* mark the post released or refunded.
C15_NoFundsNoOutcome ==
    [][(chain.balance <= FEE_RESERVE /\ sched.pc = "balance" /\ sched' # sched)
          => /\ chain' = chain
             /\ deals' = deals
             /\ \A i \in DOMAIN posts :
                    posts'[i].status \in {"released", "refunded"}
                      => posts'[i].status = posts[i].status]_vars

\* C16: whenever the deal is posted or verified, scheduled_posts holds a row
\* of the deal with a message_id.
C16_PostedHasMessage ==
    (HasDeal /\ deals["D1"].status \in {"posted", "verified"})
        => \E i \in PostsOfDeal : posts[i].message_id # NULL

\* C17: after every step, each post that has a message_id has its release_at
\* equal to its posted_at plus its hold_hours; and a step of the verify tick
\* changes neither posted_at nor release_at nor hold_hours of any post.
C17_ReleaseAtIsPostedPlusHold ==
    [][/\ \A i \in DOMAIN posts' :
            posts'[i].message_id # NULL
              => /\ posts'[i].posted_at # NULL
                 /\ posts'[i].release_at
                      = posts'[i].posted_at + posts'[i].hold_hours
       /\ (sched.pc \in {"verify_probe", "verify_branch", "balance", "send"}
           /\ sched' # sched)
            => \A i \in DOMAIN posts \cap DOMAIN posts' :
                  /\ posts'[i].posted_at = posts[i].posted_at
                  /\ posts'[i].release_at = posts[i].release_at
                  /\ posts'[i].hold_hours = posts[i].hold_hours]_vars

\* a post sent at time 1 with a hold of two hours has been verified by a tick
\* that left its times alone
C17_Witness ==
    /\ sched.pc = "done" /\ sched.res \in {"hold", "missing_info", "no_funds"}
    /\ \E i \in DOMAIN posts :
         /\ posts[i].message_id # NULL
         /\ posts[i].posted_at = 1 /\ posts[i].hold_hours = 2
         /\ posts[i].release_at = 3
         /\ posts[i].last_verified # NULL

\* C18: when the verify tick has found the message deleted and its refund
\* transfer succeeds, that step marks the post refunded, sets the deal to
\* refunded and hands a 'refunded' notification for the advertiser to the
\* notifier.
C18_RefundNotifies ==
    [][(/\ sched.pc = "send" /\ sched.kind = "refund" /\ sched.probe = "gone"
        /\ Len(chain'.sent) > Len(chain.sent))
          => /\ posts'[sched.post].status = "refunded"
             /\ deals'["D1"].status = "refunded"
             /\ sched'.notify = "refunded"]_vars

RequiredRoles(action) ==
    CASE action = "accept_deal"    -> {"manager", "owner"}
      [] action = "post_ad"        -> {"poster", "manager", "owner"}
      [] action = "release_escrow" -> {"manager", "owner"}
      [] OTHER                     -> {}

\* C20: a permission check answers allowed exactly when the role stored for
\* the user is among the roles required for the action, answers not-an-admin
\* with allowed false when the user has no channel_admins row, and whatever it
\* allows a poster it allows a manager, and whatever it allows a manager it
\* allows an owner.
C20_PermissionCheck ==
    [][(perm.pc = "idle" /\ perm'.pc = "done")
          => /\ perm'.result.allowed
                  <=> admins[perm'.user] \in RequiredRoles(perm'.action)
             /\ admins[perm'.user] = NoRole
                  => ~perm'.result.allowed /\ perm'.result.error = "not_admin"
             /\ \A a \in Actions :
                  /\ check_channel_permission("poster", a).allowed
                       => check_channel_permission("manager", a).allowed
                  /\ check_channel_permission("manager", a).allowed
                       => check_channel_permission("owner", a).allowed]_vars

\* a poster has been refused accept_deal while a user without a row would be
\* answered not-an-admin
C20_Witness ==
    /\ perm.pc = "done" /\ perm.action = "accept_deal"
    /\ perm.result = [allowed |-> FALSE, role |-> "poster",
                      error |-> "owners_managers_only"]
    /\ admins[perm.user] = "poster"
    /\ \E u \in Users : admins[u] = NoRole

\* C21: when accept, post or release is called on a deal whose status admits
\* the action by a user whose stored role is not among the roles required for
\* it, the call is answered 403 together with the role of the caller, and the
\* deal and every other row stay as they are.
C21_DeniedIs403 ==
    [][(/\ gd.pc = "idle" /\ gd'.pc = "done"
        /\ gd'.code # 400
        /\ admins[gd'.user] \notin RequiredRoles(gd'.action))
          => /\ gd'.code = 403
             /\ gd'.role = admins[gd'.user]
             /\ deals' = deals /\ admins' = admins /\ wallets' = wallets
             /\ txs' = txs /\ posts' = posts]_vars

\* a poster has called accept_deal on the pending deal
C21_Witness ==
    /\ gd.pc = "done" /\ gd.action = "accept_deal" /\ gd.code = 403
    /\ gd.role = "poster" /\ admins[gd.user] = "poster"
    /\ deals["D1"].status = "pending"

\* the time of the last delivery of an event to anyone, NULL when none
LastDelivered(e) ==
    LET at == {sentlog[i].at : i \in {j \in DOMAIN sentlog : sentlog[j].event = e}}
    IN IF at = {} THEN NULL ELSE CHOOSE t \in at : \A u \in at : u <= t

\* C22: called by one task at a time, a send for an event less than 60
\* seconds after the last delivered one of that event is answered throttled
\* and nothing is handed to the platform; a send with no earlier delivery,
\* or 60 seconds or more after the last one, is handed to the platform, and
\* what the platform accepts is delivered and recorded.
C22_CooldownThrottles ==
    [][LET c == nt["c1"]
           last == LastDelivered(c.event)
       IN /\ (c.pc = "check" /\ c.todo # << >> /\ nt' # nt) =>
                IF last # NULL /\ clock - last < NOTIFICATION_COOLDOWN_SECONDS
                THEN /\ Head(c.todo) \in nt'["c1"].throttled
                     /\ nt'["c1"].pc = "check"
                     /\ sentlog' = sentlog
                ELSE /\ nt'["c1"].pc = "deliver"
                     /\ nt'["c1"].throttled = c.throttled
          /\ (c.pc = "deliver" /\ nt' # nt) =>
                \/ /\ Head(c.todo) \in nt'["c1"].sent
                   /\ Len(sentlog') = Len(sentlog) + 1
                   /\ LastDelivered(c.event)' = clock
                \/ /\ Head(c.todo) \in nt'["c1"].failed
                   /\ sentlog' = sentlog]_vars

C22_Witness ==
    /\ nt["c1"].throttled # {}
    /\ \E i \in DOMAIN sentlog, j \in DOMAIN sentlog :
          /\ i < j
          /\ sentlog[i].event = sentlog[j].event
          /\ sentlog[j].at - sentlog[i].at >= NOTIFICATION_COOLDOWN_SECONDS

\* C23: a finished notify call for an event that was clear of its cooldown
\* when the call started, and in which the platform refused no message, has
\* delivered to every routed recipient whose id is known: none of them was
\* throttled.
C23_RoutedRecipientsReceive ==
    \A c \in Callers :
        (nt[c].pc = "done" /\ nt[c].fresh /\ nt[c].failed = {}) =>
            nt[c].throttled = {}

\* C29: two notify calls of different tasks never both deliver the same
\* event within one cooldown.
C29_OneDeliveryPerCooldown ==
    \A i \in DOMAIN sentlog, j \in DOMAIN sentlog :
        (/\ i < j
         /\ sentlog[i].event = sentlog[j].event
         /\ sentlog[i].by # sentlog[j].by) =>
            sentlog[j].at - sentlog[i].at >= NOTIFICATION_COOLDOWN_SECONDS

\* C24: no two rows of escrow_transactions, of whatever type, carry the same
\* tx_hash, the absent hash included.
C24_NoSharedTxHash ==
    \A i \in DOMAIN txs, j \in DOMAIN txs :
        txs[i].tx_hash = txs[j].tx_hash => i = j

\* C25: a mnemonic read back from the store is the mnemonic that was put in,
\* under every setting of ESCROW_SECRET_KEY.
C25_DecryptReturnsMnemonic ==
    ks.res # "none" => (ks.res = "ok" /\ ks.decrypted = ks.mnemonic)

\* C26: the status of every row of scheduled_posts is one of scheduled,
\* posted, released and refunded.
C26_PostStatusLattice ==
    \A i \in DOMAIN posts :
        posts[i].status \in {"scheduled", "posted", "released", "refunded"}

C28_FailedSendWritesNothing ==
    [][/\ (esc.pc = "send" /\ esc'.pc = "done" /\ chain' = chain) =>
             /\ esc'.res = "send_failed"
             /\ deals' = deals /\ posts' = posts /\ txs' = txs
       /\ (sched.pc = "send" /\ sched'.pc = "done" /\ chain' = chain) =>
             /\ sched'.res = "send_failed"
             /\ deals' = deals /\ posts' = posts /\ txs' = txs
             /\ sched.post \in PostsForVerification']_vars

C28_Witness ==
    /\ sched.pc = "done"
    /\ sched.res = "send_failed"
    /\ sched.kind = "release"
    /\ PostsForVerification # {}
    /\ txs # << >>
    /\ deals["D1"].status = "posted"

\* C30: when verify_and_update_admin gets the platform's answer: on an error
\* of the platform call no role changes and the result is refused; when the
\* user is reported not to be an admin, the user's role is deleted and the
\* result is refused; otherwise the user's role, stored and returned, is
\* owner when can_manage, else manager when can_post, else poster. No other
\* user's role changes.
C30_ReverifyOutcome ==
    [][(rv.pc = "platform" /\ rv'.pc = "done") =>
         LET v == rv'.verification
             u == rv.user
         IN /\ \A w \in Users \ {u} : admins'[w] = admins[w]
            /\ IF v.error # "NULL"
               THEN admins' = admins /\ ~rv'.verified
               ELSE IF ~v.is_admin
               THEN admins'[u] = NoRole /\ ~rv'.verified
               ELSE /\ rv'.verified
                    /\ rv'.role = admins'[u]
                    /\ admins'[u] = (IF v.can_manage THEN "owner"
                                     ELSE IF v.can_post THEN "manager"
                                     ELSE "poster")]_vars

C30_Witness ==
    /\ rv.pc = "done"
    /\ rv.verified
    /\ rv.verification.can_manage
    /\ rv.verification.can_post
    /\ admins[rv.user] = "owner"
    /\ \E w \in Users : admins[w] = "poster"

\* C31: the step of a tick that posts the ad leaves the post and the deal
\* posted before the 'posted' notification is attempted, and the step that
\* releases leaves the post released and the deal completed before
\* 'completed' is attempted; the notification attempt itself, delivered or
\* not, changes no post and no deal.
C31_NotificationKeepsState ==
    [][/\ (sched.notify # "posted" /\ sched'.notify = "posted") =>
             /\ deals'["D1"].status = "posted"
             /\ posts'[sched.post].status = "posted"
       /\ (sched.notify # "completed" /\ sched'.notify = "completed") =>
             /\ deals'["D1"].status = "completed"
             /\ posts'[sched.post].status = "released"
       /\ (sched.notify # "NULL" /\ sched'.notify = "NULL"
              /\ sched'.pc = "done") =>
             /\ posts' = posts
             /\ deals' = deals]_vars

C31_Witness ==
    /\ sched.pc = "done"
    /\ sched.res = "sent"
    /\ sched.kind = "release"
    /\ sched.notify = "NULL"
    /\ \A i \in DOMAIN sentlog : sentlog[i].event # "completed"
    /\ deals["D1"].status = "completed"
    /\ \E i \in DOMAIN posts : posts[i].status = "released"

\* C32: no error leaves a tick, and a tick that has ended has processed every
\* row it selected, in order, whatever happened while each was processed.
C32_TickProcessesAll ==
    /\ wl.escaped = 0
    /\ wl.pc \in {"tick_end", "sleep"} =>
          /\ Len(wl.done) = Len(wl.posts)
          /\ \A i \in DOMAIN wl.posts : wl.done[i].post = wl.posts[i]

C32_Witness ==
    /\ wl.pc = "tick_end"
    /\ Len(wl.posts) = 2
    /\ wl.done[1].outcome = "exception"
    /\ wl.done[2].outcome = "ok"

\* C33 as stated: the status check answers funded exactly when the balance
\* it read is at least 0.99 of the expected amount, whatever that amount.
C33_FundedIffBalanceCovers ==
    (gs.pc = "done" /\ gs.code = 200) =>
        (gs.is_funded <=> 100 * gs.current_balance >= 99 * gs.expected)

\* C33 amended: the status check answers funded exactly when the expected
\* amount is positive and the balance it read is at least 0.99 of it; with
\* nothing expected the answer is not funded.
C33_FundedIffPositiveAndCovered ==
    (gs.pc = "done" /\ gs.code = 200) =>
        (gs.is_funded <=> (/\ gs.expected > 0
                           /\ 100 * gs.current_balance >= 99 * gs.expected))

C33_Witness ==
    /\ gs.pc = "done"
    /\ gs.code = 200
    /\ gs.is_funded
    /\ gs.current_balance = 99
    /\ gs.expected = 100

\* C34: every row of channels that is verified has bot_is_admin and
\* bot_can_post set.
C34_VerifiedHasBotRights ==
    \A u \in ChannelNames :
        chans[u].verified => (chans[u].bot_is_admin /\ chans[u].bot_can_post)

C34_Witness ==
    /\ cv.pc = "done"
    /\ cv.op = "update"
    /\ chans[cv.username].verified
    /\ \E u \in ChannelNames :
          /\ chans[u].id # NULL
          /\ ~chans[u].verified
          /\ chans[u].bot_is_admin
          /\ ~chans[u].bot_can_post

\* C35: at most one transfer ever leaves the escrow address of the deal, and
\* the deal has never both a release and a refund row.
C35_OnePayout ==
    /\ Len(chain.sent) <= 1
    /\ ~(/\ \E i \in DOMAIN txs : txs[i].tx_type = "release"
         /\ \E i \in DOMAIN txs : txs[i].tx_type = "refund")

\* C36: the post tick sends an ad and sets the deal posted only when the
\* status of the deal is scheduled at that moment.
C36_PostTickOnlyScheduled ==
    [][(sched.pc = "post_send" /\ msgs' = msgs + 1)
          => deals["D1"].status = "scheduled"]_vars

\* C37: at most one ad message is ever sent to the channel for the deal.
C37_OneAdPerDeal == msgs <= 1

\* C38: post/cancel and the post tick never both take effect for one
\* ScheduledPost: the tick sends the ad only for a post whose row cancel has
\* not deleted (ids are never used again, and only cancel deletes rows).
C38_CancelExcludesSend ==
    [][(sched.pc = "post_send" /\ msgs' = msgs + 1)
          => sched.post \in DOMAIN posts]_vars

\* C39: when the verify endpoint answers funded with new_status funded, the
\* status of the deal right after the call is funded.
C39_FundedAnswerPersisted ==
    [][(vd.pc = "check" /\ vd'.pc = "done" /\ vd'.res = "funded")
          => deals'["D1"].status = "funded"]_vars

\* C40: the verify endpoint sets the deal funded or records a deposit row
\* only if the escrow address has received a transfer of a positive amount.
C40_FundedNeedsTransfer ==
    [][(vd.pc = "check" /\ (deals' # deals \/ txs' # txs))
          => \E i \in DOMAIN chain.incoming : chain.incoming[i].amount > 0]_vars

====
